---- MODULE Spec2Model ----
(***************************************************************************)
(* Receipt OCR: PriceNormalizer (clean_ocr_price), ItemExtractor           *)
(* (extract_items_robust, the simple fallback of extract_items_from_text,  *)
(* the LLM collaborator) and the process-wide OCR engine handles.          *)
(*                                                                         *)
(* A Python str is a sequence of one-character strings; an OCR text is the *)
(* sequence of lines that ocr_text.split('\n') yields.  A price (a float   *)
(* rounded to 2 decimals, or None) is <<>> for None and <<c>> for the      *)
(* value c/100.                                                            *)
(***************************************************************************)
EXTENDS Integers, Sequences, FiniteSets, TLC

VARIABLES
    price_str,          \* clean_ocr_price: the argument
    price_out,          \* clean_ocr_price: the returned value
    price_pc,           \* "call" before the call, "returned" after it
    ocr_text,           \* extract_items_from_text: ocr_text.split('\n')
    use_llm,            \* extract_items_from_text: the use_llm argument
    GEMINI_AVAILABLE,   \* whether google.generativeai was imported
    GOOGLE_API_KEY,     \* whether os.getenv('GOOGLE_API_KEY') is set
    ext_pc,             \* "start", "robust", "simple" or "done"
    line_idx,           \* the next line of the running loop over the lines
    current_item_lines, \* extract_items_robust: the buffer of description lines
    candidate_name,     \* <<>>, or <<full_name as the last priced line joined it>>
    robust_items,       \* extract_items_robust: items
    closing_lines,      \* for each of robust_items, the index of the line that appended it
    simple_items,       \* the simple extraction: items
    llm_called,         \* whether clean_items_with_llm was called
    llm_items,          \* what clean_items_with_llm returned
    llm_response,       \* what the model answered to the call
    result,             \* what extract_items_from_text returned
    req_pc,             \* per request: where the request is in its OCR function
    req_engine,         \* per request: the OCR function it calls
    req_size,           \* per request: the model_size argument
    florence_model,     \* the global _florence_model: None, or the size loaded
    florence_processor, \* the global _florence_processor: None, or the size loaded
    florence_onnx_session, \* the global _florence_onnx_session: None, or the size loaded
    constructed,        \* per kind of handle: how many instances were constructed
    ran_with,           \* per request: the size of the model that ran its inference
    up_pc,              \* per upload: where ocr_receipt is
    up_name,            \* per upload: secure_filename(file.filename)
    tmp_files,          \* the temporary directory: per file name <<>> (no file), or
                        \* <<u>>, the bytes of upload u
    up_img,             \* per upload: the bytes load_image read
    batch_size,         \* len(files) of the batch request
    batch_pc,           \* where process_receipts_batch is
    batch_results,      \* results: per processed file its index and success
    ocr_calls,          \* the files handed to process_receipt_edge, in the order of the calls
    stats_total_requests, \* stats.total_requests
    stats_error_count,  \* stats.error_count
    method,             \* process_receipt_edge: the method argument
    use_production,     \* the use_production argument
    use_onnx,           \* the use_onnx argument
    edge_use_llm,       \* the use_llm argument
    AVAILABLE,          \* the import flags TESSERACT_AVAILABLE, ..., ONNX_AVAILABLE
    image_valid,        \* whether Image.open can decode the file at image_path
    llm_ready,          \* GEMINI_AVAILABLE and GOOGLE_API_KEY are set
    edge_pc,            \* where process_receipt_edge is
    order_idx,          \* the position of "for m in order"
    edge_calls,         \* the adapters called, with what each returned
    image_loads,        \* how many times the image file was opened
    llm_invoked,        \* whether clean_items_with_llm was called
    edge_result,        \* the dict process_receipt_edge returned
    pts,                \* order_points: the four corner points, each <<x, y>>
    rect,               \* what order_points returned
    order_pc,           \* whether order_points has returned
    image_size,         \* deskew_image: <<w, h>> of the input image
    lines,              \* <<>> for None, else np.degrees(theta) - 90 of each Hough line
    median_angle,       \* <<>> when none was taken, else <<median in half degrees>>
    rotated,            \* <<w, h>> of the image deskew_image returned
    deskew_pc,          \* whether deskew_image has returned
    contours,           \* correct_perspective: per contour its area and the length of its approxPolyDP
    persp_result,       \* what correct_perspective returned: "image" or "warped"
    persp_pc,           \* whether correct_perspective has returned
    coords,             \* auto_crop_receipt: <<>> for None, else <<"rect">>, the pixels findNonZero found
    crop_result,        \* what auto_crop_receipt returned: "image" or "cropped"
    crop_pc,            \* whether auto_crop_receipt has returned
    too_large,          \* preprocess_production: whether max(h, w) > max_dimension
    enable_perspective, \* the enable_perspective argument
    enable_deskewing,   \* the enable_deskewing argument
    enable_sharpening,  \* the enable_sharpening argument
    pre_pc,             \* the position in the pipeline, 0 when idle
    stages_run,         \* the stages applied to the image so far, in order
    service,            \* the OCR service module that handles the requests
    svc_pc,             \* where process_receipt is: "idle" between two requests
    svc_outcome,        \* how the running or the last request went
    temp_path,          \* the local temp_path: <<>> for None, else <<the file of the request>>
    tmp_dir,            \* the temporary files that exist, each named by the request that created it
    svc_total_requests, \* stats.total_requests of the service
    svc_error_count,    \* stats.error_count of the service
    svc_done,           \* how many requests have completed
    agent_next,         \* the shopping agent graph: the node that runs next, END, or "raised"
    status,             \* state["status"]
    content,            \* what the last message of the model starts with
    cart,               \* state["cart"]: the product bought by each BUY
    agent_steps         \* how many nodes have run

price_vars == <<price_str, price_out, price_pc>>

ext_vars == <<ocr_text, use_llm, GEMINI_AVAILABLE, GOOGLE_API_KEY, ext_pc, line_idx,
              current_item_lines, candidate_name, robust_items, closing_lines,
              simple_items, llm_called, llm_items, llm_response, result>>

handle_vars == <<req_pc, req_engine, req_size, florence_model, florence_processor,
                 florence_onnx_session, constructed, ran_with>>

upload_vars == <<up_pc, up_name, tmp_files, up_img>>

batch_vars == <<batch_size, batch_pc, batch_results, ocr_calls,
                stats_total_requests, stats_error_count>>

edge_vars == <<method, use_production, use_onnx, edge_use_llm, AVAILABLE, image_valid,
               llm_ready, edge_pc, order_idx, edge_calls, image_loads, llm_invoked,
               edge_result>>

order_vars == <<pts, rect, order_pc>>

deskew_vars == <<image_size, lines, median_angle, rotated, deskew_pc>>

stage_vars == <<contours, persp_result, persp_pc, coords, crop_result, crop_pc>>

pre_vars == <<too_large, enable_perspective, enable_deskewing, enable_sharpening, pre_pc, stages_run>>

svc_vars == <<service, svc_pc, svc_outcome, temp_path, tmp_dir, svc_total_requests, svc_error_count, svc_done>>

agent_vars == <<agent_next, status, content, cart, agent_steps>>

vars == <<price_vars,
         ext_vars,
         handle_vars,
         upload_vars,
         batch_vars,
         edge_vars,
         order_vars,
         deskew_vars,
         stage_vars,
         pre_vars,
         svc_vars,
         agent_vars>>

\* the variables a specification of one part leaves alone
outside_price == <<ext_vars, handle_vars, upload_vars, batch_vars, edge_vars, order_vars, deskew_vars, stage_vars, pre_vars, svc_vars, agent_vars>>
outside_ext == <<price_vars, handle_vars, upload_vars, batch_vars, edge_vars, order_vars, deskew_vars, stage_vars, pre_vars, svc_vars, agent_vars>>
outside_handles == <<price_vars, ext_vars, upload_vars, batch_vars, edge_vars, order_vars, deskew_vars, stage_vars, pre_vars, svc_vars, agent_vars>>
outside_agent == <<price_vars, ext_vars, handle_vars, upload_vars, batch_vars, edge_vars, order_vars, deskew_vars, stage_vars, pre_vars, svc_vars>>
outside_svc == <<price_vars, ext_vars, handle_vars, upload_vars, batch_vars, edge_vars, order_vars, deskew_vars, stage_vars, pre_vars, agent_vars>>
outside_pre == <<price_vars, ext_vars, handle_vars, upload_vars, batch_vars, edge_vars, order_vars, deskew_vars, stage_vars, svc_vars, agent_vars>>
outside_stage == <<price_vars, ext_vars, handle_vars, upload_vars, batch_vars, edge_vars, order_vars, deskew_vars, pre_vars, svc_vars, agent_vars>>
outside_deskew == <<price_vars, ext_vars, handle_vars, upload_vars, batch_vars, edge_vars, order_vars, stage_vars, pre_vars, svc_vars, agent_vars>>
outside_order == <<price_vars, ext_vars, handle_vars, upload_vars, batch_vars, edge_vars, deskew_vars, stage_vars, pre_vars, svc_vars, agent_vars>>
outside_edge == <<price_vars, ext_vars, handle_vars, upload_vars, batch_vars, order_vars, deskew_vars, stage_vars, pre_vars, svc_vars, agent_vars>>
outside_batch == <<price_vars, ext_vars, handle_vars, upload_vars, edge_vars, order_vars, deskew_vars, stage_vars, pre_vars, svc_vars, agent_vars>>
outside_upload == <<price_vars, ext_vars, handle_vars, batch_vars, edge_vars, order_vars, deskew_vars, stage_vars, pre_vars, svc_vars, agent_vars>>

-----------------------------------------------------------------------------
(* Bounds *)

MaxPriceLen == 4
MaxLines == 2
MaxRequests == 2
MaxUploads == 2
MaxBatch == 11
MaxCoord == 2
MaxSide == 3
MaxCalls == 3
MaxSteps == 8

-----------------------------------------------------------------------------
(* Characters and character classes of Python's re on str *)

AsciiDigits == <<"0","1","2","3","4","5","6","7","8","9">>
LowerChars == <<"a","b","c","d","e","f","g","h","i","j","k","l","m",
                "n","o","p","q","r","s","t","u","v","w","x","y","z">>
UpperChars == <<"A","B","C","D","E","F","G","H","I","J","K","L","M",
                "N","O","P","Q","R","S","T","U","V","W","X","Y","Z">>

Range(f) == { f[i] : i \in DOMAIN f }

IndexOf(f, c) == CHOOSE i \in DOMAIN f : f[i] = c

IsAsciiDigit(c) == c \in Range(AsciiDigits)

\* "u0663" stands for the one character U+0663 (ARABIC-INDIC DIGIT THREE), a
\* decimal digit outside ASCII, and "u20AC" for the euro sign: \d matches U+0663 and
\* int() reads it, [0-9] does not match it
UnicodeDigits == {"u0663"}

\* \d on str
IsDigit(c) == IsAsciiDigit(c) \/ c \in UnicodeDigits

\* \s
IsSpace(c) == c \in {" ", "\t"}

IsLower(c) == c \in Range(LowerChars)
IsUpper(c) == c \in Range(UpperChars)
IsLetter(c) == IsLower(c) \/ IsUpper(c)

\* \w
IsWord(c) == IsLetter(c) \/ IsDigit(c) \/ c = "_"

\* [.,]
IsSep(c) == c \in {".", ","}

DigitVal(c) == IF c \in UnicodeDigits THEN 3 ELSE IndexOf(AsciiDigits, c) - 1

LowerChar(c) == IF IsUpper(c) THEN LowerChars[IndexOf(UpperChars, c)] ELSE c
UpperChar(c) == IF IsLower(c) THEN UpperChars[IndexOf(LowerChars, c)] ELSE c

-----------------------------------------------------------------------------
(* str helpers *)

Min(S) == CHOOSE m \in S : \A n \in S : m <= n
Max(S) == CHOOSE m \in S : \A n \in S : m >= n

\* s[i:] with 1-based i
From(s, i) == SubSeq(s, i, Len(s))

\* s[:i-1] with 1-based i
Before(s, i) == SubSeq(s, 1, i - 1)

\* str.lower()
Lower(s) == [i \in 1..Len(s) |-> LowerChar(s[i])]

\* where a greedy run of \d that starts at i ends: the first index j >= i whose
\* character is no digit, Len(s)+1 if there is none
RECURSIVE DigitsEnd(_, _)
DigitsEnd(s, i) ==
    IF i > Len(s) \/ ~IsDigit(s[i]) THEN i ELSE DigitsEnd(s, i + 1)

\* the same for a greedy run of \s
RECURSIVE SpaceEnd(_, _)
SpaceEnd(s, i) ==
    IF i > Len(s) \/ ~IsSpace(s[i]) THEN i ELSE SpaceEnd(s, i + 1)

MinOrZero(S) == IF S = {} THEN 0 ELSE Min(S)

\* str.strip(): a is where the leading white space ends
StripFrom(s, a) ==
    IF a > Len(s) THEN <<>>
    ELSE SubSeq(s, a, Max({ j \in a..Len(s) : ~IsSpace(s[j]) }))

Strip(s) == StripFrom(s, SpaceEnd(s, 1))

\* k in s
Contains(s, k) ==
    \E i \in 1..(Len(s) - Len(k) + 1) : SubSeq(s, i, i + Len(k) - 1) = k

\* re.sub(r'[...]', '', s) for a one-character class: keep the characters of Keep
Filter(s, Keep(_)) == SelectSeq(s, Keep)

\* int() of a run of digits
RECURSIVE DigitsVal(_)
DigitsVal(d) ==
    IF d = <<>> THEN 0
    ELSE 10 * DigitsVal(SubSeq(d, 1, Len(d) - 1)) + DigitVal(d[Len(d)])

RECURSIVE Pow10(_)
Pow10(n) == IF n = 0 THEN 1 ELSE 10 * Pow10(n - 1)

\* " ".join(parts)
RECURSIVE Join(_)
Join(parts) ==
    IF parts = <<>> THEN <<>>
    ELSE IF Len(parts) = 1 THEN parts[1]
    ELSE parts[1] \o <<" ">> \o Join(Tail(parts))

\* str.title(): a letter that follows a letter is lowered, any other letter is raised
Title(s) ==
    [i \in 1..Len(s) |->
        IF i > 1 /\ IsLetter(s[i - 1]) THEN LowerChar(s[i]) ELSE UpperChar(s[i])]

-----------------------------------------------------------------------------
(* PriceNormalizer: clean_ocr_price *)

NoPrice == <<>>

\* step 1, re.sub(r'(\d)\s+[.,]\s+(\d)', r'\1.\2', s).  SpacedSepMatch is the index
\* of the closing digit of a match that starts at i, 0 if there is none; a is
\* where the white space after the first digit ends, b where the white space
\* after the separator ends.
SpacedSepDigit(s, a, b) ==
    IF b = a + 1 \/ b > Len(s) \/ ~IsDigit(s[b]) THEN 0 ELSE b

SpacedSepAt(s, i, a) ==
    IF a = i + 1 \/ a > Len(s) \/ ~IsSep(s[a]) THEN 0
    ELSE SpacedSepDigit(s, a, SpaceEnd(s, a + 1))

SpacedSepMatch(s, i) ==
    IF ~IsDigit(s[i]) THEN 0 ELSE SpacedSepAt(s, i, SpaceEnd(s, i + 1))

RECURSIVE CollapseSpacedSep(_, _)
CollapseAt(s, i, e) ==
    IF e > 0 THEN <<s[i], ".", s[e]>> \o CollapseSpacedSep(s, e + 1)
    ELSE <<s[i]>> \o CollapseSpacedSep(s, i + 1)

CollapseSpacedSep(s, i) ==
    IF i > Len(s) THEN <<>> ELSE CollapseAt(s, i, SpacedSepMatch(s, i))

\* step 2, str.replace(',', '.')
CommaToDot(s) == [i \in 1..Len(s) |-> IF s[i] = "," THEN "." ELSE s[i]]

\* step 3, re.sub(r'[^0-9.]', '', s)
IsDigitOrDot(c) == IsAsciiDigit(c) \/ c = "."

KeepDigitsAndDots_noop(s) == s

KeepDigitsAndDots(s) == Filter(s, IsDigitOrDot)

\* round(float("int_part.frac"), 2) in hundredths: base is the value cut after
\* the second decimal, rest the digits cut off; they round to nearest, an exact
\* decimal half to even
RoundHalf(base, twice, unit) ==
    IF twice > unit THEN base + 1
    ELSE IF twice < unit THEN base
    ELSE IF base % 2 = 1 THEN base + 1 ELSE base

RoundBase(base, rest) == RoundHalf(base, 2 * DigitsVal(rest), Pow10(Len(rest)))

RoundToCents(int_part, frac) ==
    RoundBase(100 * DigitsVal(int_part) + 10 * DigitVal(frac[1])
                + (IF Len(frac) >= 2 THEN DigitVal(frac[2]) ELSE 0),
              IF Len(frac) > 2 THEN SubSeq(frac, 3, Len(frac)) ELSE <<>>)

\* step 4, re.search(r'(\d+\.\d+)', s): the start of the leftmost match, 0 if
\* none; e is where the run of digits that starts at i ends
DecimalAt(s, e) == e + 1 <= Len(s) /\ s[e] = "." /\ IsDigit(s[e + 1])

DecimalStart(s) ==
    MinOrZero({ i \in 1..Len(s) : IsDigit(s[i]) /\ DecimalAt(s, DigitsEnd(s, i)) })

\* round(float(match.group(1)), 2) for the match s[i..], whose dot is at e
DecimalPrice(s, i, e) ==
    <<RoundToCents(SubSeq(s, i, e - 1), SubSeq(s, e + 1, DigitsEnd(s, e + 1) - 1))>>

\* step 5, re.search(r'(\d+)$', s): the start of the trailing run of digits
TrailingStart(s) == Min({ j \in 1..Len(s) : \A k \in j..Len(s) : IsDigit(s[k]) })

\* steps 4 to 6 on the stripped string s, i being DecimalStart(s)
PriceAt_zero(s, i) ==
    IF i > 0 THEN DecimalPrice(s, i, DigitsEnd(s, i))
    ELSE IF s # <<>> /\ IsDigit(s[Len(s)])
    THEN <<100 * DigitsVal(From(s, TrailingStart(s)))>>
    ELSE <<0>>

PriceAt(s, i) ==
    IF i > 0 THEN DecimalPrice(s, i, DigitsEnd(s, i))
    ELSE IF s # <<>> /\ IsDigit(s[Len(s)])
    THEN <<100 * DigitsVal(From(s, TrailingStart(s)))>>
    ELSE NoPrice

PriceOfStripped(s) == PriceAt(s, DecimalStart(s))

clean_ocr_price(price_str0) ==
    PriceOfStripped(KeepDigitsAndDots(CommaToDot(CollapseSpacedSep(price_str0, 1))))

-----------------------------------------------------------------------------
(* ItemExtractor strategy 1: extract_items_robust *)

skip_keywords ==
    { <<"t","o","t","a","l">>,
      <<"s","u","b","t","o","t","a","l">>,
      <<"s","a","v","i","n","g","s">>,
      <<"c","h","a","n","g","e">>,
      <<"d","u","e">>,
      <<"c","a","s","h">>,
      <<"v","i","s","a">>,
      <<"m","a","s","t","e","r","c","a","r","d">>,
      <<"b","a","l","a","n","c","e">>,
      <<"v","a","t">>,
      <<"c","l","u","b","c","a","r","d">>,
      <<"v","i","s","i","t">>,
      <<"t","e","l",":">>,
      <<"w","w","w",".">>,
      <<"m","a","n","a","g","e","r">>,
      <<"s","t","o","r","e">>,
      <<"a","u","t","h">>,
      <<"r","e","f">>,
      <<"m","e","r","c","h","a","n","t">>,
      <<"t","e","s","c","o">>,
      <<"e","x","p","r","e","s","s">>,
      <<"r","e","c","e","i","p","t">>,
      <<"b","e","e","c","h">>,
      <<"a","l","b","a","n","s">>,
      <<"q","u","e","s","t","i","o","n","s">>,
      <<"p","l","e","a","s","e">>,
      <<"n","u","m","b","e","r">>,
      <<"j","o","i","n">>,
      <<"t","o","d","a","y">>,
      <<"d","o","w","n","l","o","a","d">>,
      <<"a","p","p">>,
      <<"p","r","i","c","e","s">>,
      <<"p","o","i","n","t","s">>,
      <<"m","i","s","s","e","d">> }

\* any(k in s.lower() for k in skip_keywords)
HasKeyword(lower) == \E k \in skip_keywords : Contains(lower, k)

HasSkipKeyword(s) == HasKeyword(Lower(s))

\* \d+\s*[.,]\s*\d{2}\s*$ matched from index i to the end of s: e is where the
\* digits end, a where the white space after them ends, b where the white space
\* after the separator ends
PricedCents(s, b) ==
    /\ b + 1 <= Len(s)
    /\ IsDigit(s[b]) /\ IsDigit(s[b + 1])
    /\ SpaceEnd(s, b + 2) = Len(s) + 1

PricedAtSep(s, a) ==
    a <= Len(s) /\ IsSep(s[a]) /\ PricedCents(s, SpaceEnd(s, a + 1))

PricedAfterDigits(s, i, e) == e > i /\ PricedAtSep(s, SpaceEnd(s, e))

PricedTail(s, i) == PricedAfterDigits(s, i, DigitsEnd(s, i))

\* re.search(price_end_pattern, line): the start of the leftmost match of
\* (£\d+\s*[.,]\s*\d{2})\s*$|(\d+\s*[.,]\s*\d{2})\s*$, 0 if there is none;
\* the match runs to the end of the line
PriceEndStart(s) ==
    MinOrZero({ i \in 1..Len(s) : PricedTail(s, IF s[i] = "£" THEN i + 1 ELSE i) })

\* re.sub(r'^\d+\s+', '', s): e is where the leading digits end
StripNumberAt(s, e, a) == IF e > 1 /\ a > e THEN From(s, a) ELSE s

StripLeadingNumber(s) == StripNumberAt(s, DigitsEnd(s, 1), SpaceEnd(s, DigitsEnd(s, 1)))

\* re.sub(r'[^\w\s\-\.&%]', '', s)
IsNameChar(c) == IsWord(c) \/ IsSpace(c) \/ c \in {"-", ".", "&", "%"}
RemoveNoise(s) == Filter(s, IsNameChar)

\* re.match(r'^(\d+)\s*[xX@]?\s+(.+)$', s): 0 if there is no match, else the start
\* of group 2.  Group 1 is the leading run of digits, which ends at d; the white
\* space after it ends at w.  The matcher first tries \s* over all the white
\* space, the marker, then \s+ (group 2 then starts at c1); failing that, \s*
\* gives white space back to \s+, which ends where the white space ends (c2);
\* group 2 keeps at least one character.
QtyPick(d, w, c1, c2) ==
    IF c1 >= w + 2 THEN c1
    ELSE IF w > d /\ c2 >= d + 1 THEN c2
    ELSE 0

QtyAfterSpace(s, d, w) ==
    QtyPick(d, w,
            IF w <= Len(s) /\ s[w] \in {"x", "X", "@"}
            THEN Min({SpaceEnd(s, w + 1), Len(s)}) ELSE 0,
            Min({w, Len(s)}))

QtyAfterDigits(s, d) == IF d = 1 THEN 0 ELSE QtyAfterSpace(s, d, SpaceEnd(s, d))

QtyNameStart(s) == QtyAfterDigits(s, DigitsEnd(s, 1))

\* int(qty_match.group(1)), 1 without a match (start is QtyNameStart(s))
QtyAt(s, start) == IF start = 0 THEN 1 ELSE DigitsVal(Before(s, DigitsEnd(s, 1)))

\* qty_match.group(2), s without a match
NameAt(s, start) == IF start = 0 THEN s ELSE From(s, start)

\* is_junk or is_date or is_time of an unpriced line
HasDate(s) ==
    \E i \in 1..(Len(s) - 7) :
        /\ IsDigit(s[i]) /\ IsDigit(s[i + 1]) /\ s[i + 2] \in {"/", "-"}
        /\ IsDigit(s[i + 3]) /\ IsDigit(s[i + 4]) /\ s[i + 5] \in {"/", "-"}
        /\ IsDigit(s[i + 6]) /\ IsDigit(s[i + 7])

HasTime(s) ==
    \E i \in 1..(Len(s) - 7) :
        /\ IsDigit(s[i]) /\ IsDigit(s[i + 1]) /\ s[i + 2] = ":"
        /\ IsDigit(s[i + 3]) /\ IsDigit(s[i + 4]) /\ s[i + 5] = ":"
        /\ IsDigit(s[i + 6]) /\ IsDigit(s[i + 7])

IsJunkLine(s) == HasSkipKeyword(s) \/ HasDate(s) \/ HasTime(s)

\* the candidate name after the basic cleaning
CleanedName(full_name) == RemoveNoise(StripLeadingNumber(full_name))

\* price_val of a line whose price match starts at start (0: no match):
\* clean_ocr_price(price_match.group(0)), or None
LinePriceAt(line, start) ==
    IF start = 0 THEN NoPrice ELSE clean_ocr_price(From(line, start))

LinePrice(line) == LinePriceAt(line, PriceEndStart(line))

\* " ".join(current_item_lines) once the name part of a priced line is appended
FullName_nopart(buf, name_part) == Join(buf)

FullName(buf, name_part) ==
    Join(IF name_part # <<>> THEN Append(buf, name_part) ELSE buf)

\* full_name as the last priced line joined it; prev when the line is not priced
CandidateAt(line, start, buf, prev) ==
    IF Len(line) >= 2 /\ LinePriceAt(line, start) # NoPrice
    THEN <<FullName(buf, Strip(Before(line, start)))>>
    ELSE prev

CandidateStripped(line, buf, prev) == CandidateAt(line, PriceEndStart(line), buf, prev)

\* one iteration of the loop over the lines gives the new current_item_lines,
\* the new items, and whether the iteration appended an item

\* "if len(full_name) > 3: items.append(...)" and the reset of the buffer
EmitItem_noprice(keep, name, qty, price_val, its) ==
    [buf |-> <<>>,
     items |-> IF keep
               THEN Append(its, [name |-> Title(name), price |-> NoPrice,
                                 quantity |-> qty])
               ELSE its,
     emitted |-> keep]

EmitItem(keep, name, qty, price_val, its) ==
    [buf |-> <<>>,
     items |-> IF keep
               THEN Append(its, [name |-> Title(name), price |-> price_val,
                                 quantity |-> qty])
               ELSE its,
     emitted |-> keep]

EmitCleaned(passes, cleaned, start, price_val, its) ==
    EmitItem(passes /\ Len(NameAt(cleaned, start)) > 3,
             NameAt(cleaned, start), QtyAt(cleaned, start), price_val, its)

\* a priced line closes the current item
CloseItem_nofilter(full_name, price_val, its) ==
    EmitCleaned(TRUE, CleanedName(full_name),
                QtyNameStart(CleanedName(full_name)), price_val, its)

CloseItem(full_name, price_val, its) ==
    EmitCleaned(~HasSkipKeyword(full_name), CleanedName(full_name),
                QtyNameStart(CleanedName(full_name)), price_val, its)

\* "if price_val is not None: ... else: ..."
RobustPriced(line, start, price_val, buf, its) ==
    IF price_val # NoPrice
    THEN CloseItem(FullName(buf, Strip(Before(line, start))), price_val, its)
    ELSE [buf |-> IF IsJunkLine(line) THEN buf ELSE Append(buf, line),
          items |-> its,
          emitted |-> FALSE]

RobustMatched(line, start, buf, its) ==
    RobustPriced(line, start, LinePriceAt(line, start), buf, its)

RobustStripped(line, buf, its) ==
    IF Len(line) < 2 THEN [buf |-> buf, items |-> its, emitted |-> FALSE]
    ELSE RobustMatched(line, PriceEndStart(line), buf, its)

RobustLineStep(raw, buf, its) == RobustStripped(Strip(raw), buf, its)

-----------------------------------------------------------------------------
(* ItemExtractor strategy 2: the simple extraction of extract_items_from_text *)

\* re.search(r'\bk\b', s) for a keyword k of word characters
ContainsWord(s, k) ==
    \E i \in 1..(Len(s) - Len(k) + 1) :
        /\ SubSeq(s, i, i + Len(k) - 1) = k
        /\ i = 1 \/ ~IsWord(s[i - 1])
        /\ i + Len(k) > Len(s) \/ ~IsWord(s[i + Len(k)])

\* k == s[j : j + len(k)]
HasAt(s, j, k) == j + Len(k) - 1 <= Len(s) /\ SubSeq(s, j, j + Len(k) - 1) = k

\* re.search(r'k1\s*k2', s)
ContainsSpaced(s, k1, k2) ==
    \E i \in 1..(Len(s) - Len(k1) + 1) :
        HasAt(s, i, k1) /\ HasAt(s, SpaceEnd(s, i + Len(k1)), k2)

\* the patterns of skip_patterns that are plain substrings: (?:sub)?total,
\* savings?, promotions?, clubcard, points?, balance, receipt, www\., number,
\* tel:, phone, customer, transaction, payment, visa, mastercard, debit, credit,
\* approved, auth, store
skip_substrings ==
    { <<"t","o","t","a","l">>,
      <<"s","a","v","i","n","g">>,
      <<"p","r","o","m","o","t","i","o","n">>,
      <<"c","l","u","b","c","a","r","d">>,
      <<"p","o","i","n","t">>,
      <<"b","a","l","a","n","c","e">>,
      <<"r","e","c","e","i","p","t">>,
      <<"w","w","w",".">>,
      <<"n","u","m","b","e","r">>,
      <<"t","e","l",":">>,
      <<"p","h","o","n","e">>,
      <<"c","u","s","t","o","m","e","r">>,
      <<"t","r","a","n","s","a","c","t","i","o","n">>,
      <<"p","a","y","m","e","n","t">>,
      <<"v","i","s","a">>,
      <<"m","a","s","t","e","r","c","a","r","d">>,
      <<"d","e","b","i","t">>,
      <<"c","r","e","d","i","t">>,
      <<"a","p","p","r","o","v","e","d">>,
      <<"a","u","t","h">>,
      <<"s","t","o","r","e">> }

\* \bcard\b, \bvat\b, \bchange\b, \bcash\b
skip_words ==
    { <<"c","a","r","d">>, <<"v","a","t">>, <<"c","h","a","n","g","e">>,
      <<"c","a","s","h">> }

\* ^\s*\d{2}[/\-]\d{2} and ^\s*\d{2}:\d{2} on a stripped line
StartsWithDateOrTime(s) ==
    /\ Len(s) >= 5
    /\ IsDigit(s[1]) /\ IsDigit(s[2]) /\ s[3] \in {"/", "-", ":"}
    /\ IsDigit(s[4]) /\ IsDigit(s[5])

\* any(re.search(p, line_lower) for p in skip_patterns)
MatchesPattern(l) ==
    \/ \E k \in skip_substrings : Contains(l, k)
    \/ \E k \in skip_words : ContainsWord(l, k)
    \/ ContainsSpaced(l, <<"t","h","a","n","k">>, <<"y","o","u">>)
    \/ ContainsSpaced(l, <<"r","e","f">>, <<":">>)
    \/ StartsWithDateOrTime(l)

MatchesSkipPattern(line) == MatchesPattern(Lower(line))

\* price_pattern [£$€]?\s*-?\d+[.,]\d{2} matched at index i: the index after the
\* match, 0 if there is none; b is where the white space after the currency
\* sign ends, c where the digits start, e where they end
PatternCents(s, c, e) ==
    IF /\ e > c
       /\ e + 2 <= Len(s)
       /\ IsSep(s[e]) /\ IsDigit(s[e + 1]) /\ IsDigit(s[e + 2])
    THEN e + 3 ELSE 0

PatternDigits(s, c) == PatternCents(s, c, DigitsEnd(s, c))

PatternSign(s, b) == PatternDigits(s, IF b <= Len(s) /\ s[b] = "-" THEN b + 1 ELSE b)

PricePatternEnd(s, i) ==
    PatternSign(s, SpaceEnd(s, IF i <= Len(s) /\ s[i] \in {"£", "$", "u20AC"}
                               THEN i + 1 ELSE i))

\* the pattern, then \s*$ (m is PricePatternEnd)
EndsAfter(s, m) == m > 0 /\ SpaceEnd(s, m) = Len(s) + 1

\* re.match(rf'^{price_pattern}\s*$', line)
IsOnlyPrice(s) == EndsAfter(s, PricePatternEnd(s, 1))

\* s[:start-1] when there is a match (start > 0), else s
CutAt(s, start) == IF start = 0 THEN s ELSE Before(s, start)

\* re.sub(rf'\s*{price_pattern}\s*$', '', line)
RemoveTrailingPrice(s) ==
    CutAt(s, MinOrZero({ i \in 1..Len(s) :
                           EndsAfter(s, PricePatternEnd(s, SpaceEnd(s, i))) }))

\* \([a-zA-Z]\)\s*$ at p
MarkerAt(s, p) ==
    /\ p + 2 <= Len(s)
    /\ s[p] = "(" /\ IsLetter(s[p + 1]) /\ s[p + 2] = ")"
    /\ SpaceEnd(s, p + 3) = Len(s) + 1

\* re.sub(r'\s*\([a-zA-Z]\)\s*$', '', s)
RemoveCategoryMarker(s) ==
    CutAt(s, MinOrZero({ i \in 1..Len(s) : MarkerAt(s, SpaceEnd(s, i)) }))

\* re.sub(r'^[\d]{4,}\s+', '', s): e is where the leading digits end
RemoveCodeAt(s, e, a) == IF e > 4 /\ a > e THEN From(s, a) ELSE s

RemoveItemCode(s) == RemoveCodeAt(s, DigitsEnd(s, 1), SpaceEnd(s, DigitsEnd(s, 1)))

\* re.match(r'^[\d\W]+$', s)
IsNoiseName(s) ==
    s # <<>> /\ \A i \in 1..Len(s) : IsDigit(s[i]) \/ ~IsWord(s[i])

\* clean of a line that passed the skip patterns
SimpleClean(line) ==
    Strip(RemoveItemCode(Strip(RemoveCategoryMarker(Strip(RemoveTrailingPrice(line))))))

\* one iteration of the loop of the simple extraction gives the new items

\* "if re.match(r'^[\d\W]+$', item_name): continue" and items.append(...)
SimpleEmit_priced(item_name, qty, its) ==
    IF IsNoiseName(item_name) THEN its
    ELSE Append(its, [name |-> Title(item_name), price |-> <<0>>, quantity |-> qty])

SimpleEmit(item_name, qty, its) ==
    IF IsNoiseName(item_name) THEN its
    ELSE Append(its, [name |-> Title(item_name), price |-> NoPrice, quantity |-> qty])

SimpleQty(clean, start, its) ==
    SimpleEmit(Strip(NameAt(clean, start)), QtyAt(clean, start), its)

SimpleCleaned(clean, its) ==
    IF Len(clean) < 2 THEN its ELSE SimpleQty(clean, QtyNameStart(clean), its)

SimpleStripped(line, its) ==
    IF Len(line) < 3 \/ MatchesSkipPattern(line) \/ IsOnlyPrice(line) THEN its
    ELSE SimpleCleaned(SimpleClean(line), its)

SimpleLineStep(raw, its) == SimpleStripped(Strip(raw), its)

-----------------------------------------------------------------------------
(* Inputs of clean_ocr_price *)

PriceAlphabet == {"1", "8", ".", ",", " ", "S"}

RECURSIVE StringsUpTo(_, _)
StringsUpTo(A, n) ==
    IF n = 0 THEN { <<>> }
    ELSE LET shorter == StringsUpTo(A, n - 1)
         IN  shorter \cup { Append(s, c) : s \in { t \in shorter : Len(t) = n - 1 },
                                           c \in A }

PriceExamples ==
    { <<"S","1",".","5","0">>,
      <<"£","1",".","5","0">>,
      <<"1"," ",".","3","0">>,
      <<"8","2",",","8","5">>,
      <<"a","b","c">>,
      <<"1"," ",","," ","3","0">>,
      <<"2",".","5","0","8">>,
      <<"S","5">>,
      <<"C","1",".","6","0">> }

PriceInputs == PriceExamples \cup StringsUpTo(PriceAlphabet, MaxPriceLen)

-----------------------------------------------------------------------------
(* The LLM cleanup collaborator: clean_items_with_llm *)

\* what the function returns: None, or a list
LLMNone == [is_none |-> TRUE, items |-> <<>>]
LLMList(its) == [is_none |-> FALSE, items |-> its]

\* "if llm_items:"
Truthy_nonnone(r) == ~r.is_none

Truthy(r) == ~r.is_none /\ r.items # <<>>

\* no call was made
NoResponse == [kind |-> "none", entries |-> <<>>]

\* the responses at which a statement inside the try raises: the call itself,
\* json.loads, and item.get on an entry that is no object
RaisingKinds == {"call_error", "malformed_json", "non_object_entries"}

\* "except Exception as e:" catches whatever was raised
Caught_json_only(kind) == kind = "malformed_json"

Caught(kind) == TRUE

\* an exception leaves clean_items_with_llm
LLMRaises(response) == response.kind \in RaisingKinds /\ ~Caught(response.kind)

\* one entry of the normalized list
NormalizeEntry(e) ==
    [name |-> Title(IF e.has_name THEN e.name ELSE <<>>),
     price |-> NoPrice,
     quantity |-> IF e.has_quantity THEN e.quantity ELSE 1]

\* the value returned for a response of the model: an exception of the call, a
\* text without a JSON array, a text json.loads rejects and a list with an entry
\* that is no object are all caught or answered by None
clean_items_with_llm(available, api_key, response) ==
    IF ~available \/ ~api_key THEN LLMNone
    ELSE IF response.kind # "list" THEN LLMNone
    ELSE LLMList([i \in 1..Len(response.entries) |-> NormalizeEntry(response.entries[i])])

-----------------------------------------------------------------------------
(* Inputs of extract_items_from_text *)

CorpusLines ==
    { <<"T","o","m","a","t","o"," ","S","o","u","p">>,
      <<"£","1",".","6","5">>,
      <<"V","A","T"," ","2","0","%">>,
      <<"T","O","T","A","L"," ","£","4",".","0","5">>,
      <<"3"," ","x"," ","B","r","e","a","d"," ","R","o","l","l","s"," ","1",".","2","0">>,
      <<"0","x"," ","E","g","g","s"," ","1",",","5","0">>,
      <<"T","E","S","C","O">>,
      <<"1","2","3","4","5"," ","B","e","a","n","s"," ","(","F",")">>,
      <<"x">>,
      <<"T","o","'","t","a","l"," ","9",".","9","9">>,
      <<"1","2","/","0","3","/","2","4">>,
      <<"R","i","c","e"," ","u0663",".","u0663","u0663">> }

\* the example of the specification's testable properties
ExampleText ==
    << <<"T","o","m","a","t","o"," ","S","o","u","p">>,
       <<"£","1",".","6","5">>,
       <<"2"," ","x"," ","M","i","l","k"," ","2",".","4","0">>,
       <<"V","A","T"," ","2","0","%">>,
       <<"T","O","T","A","L"," ","£","4",".","0","5">> >>

\* ocr_text.split('\n') has at least one line
Texts ==
    {ExampleText} \cup UNION { [1..n -> CorpusLines] : n \in 1..MaxLines }

Entry(n, q) == [has_name |-> TRUE, name |-> n, has_quantity |-> TRUE, quantity |-> q]

LLMResponses ==
    { [kind |-> "call_error", entries |-> <<>>],
      [kind |-> "no_json", entries |-> <<>>],
      [kind |-> "malformed_json", entries |-> <<>>],
      [kind |-> "non_object_entries", entries |-> <<>>],
      [kind |-> "list", entries |-> <<>>],
      [kind |-> "list",
       entries |-> <<Entry(<<"S","e","m","i"," ","S","k","i","m","m","e","d"," ","M","i","l","k">>, 1)>>],
      [kind |-> "list",
       entries |-> <<Entry(<<"t","e","s","c","o"," ","m","i","l","k">>, 2)>>],
      [kind |-> "list",
       entries |-> <<[has_name |-> FALSE, name |-> <<>>, has_quantity |-> FALSE, quantity |-> 1],
                     Entry(<<"e","g","g","s">>, 0)>>] }

-----------------------------------------------------------------------------
(* Specification of the PriceNormalizer calls *)

PriceIdle ==
    /\ price_str = <<>>
    /\ price_out = NoPrice
    /\ price_pc = "idle"

ExtIdle ==
    /\ ocr_text = <<>>
    /\ use_llm = FALSE
    /\ GEMINI_AVAILABLE = FALSE
    /\ GOOGLE_API_KEY = FALSE
    /\ ext_pc = "idle"
    /\ line_idx = 1
    /\ current_item_lines = <<>>
    /\ candidate_name = <<>>
    /\ robust_items = <<>>
    /\ closing_lines = <<>>
    /\ simple_items = <<>>
    /\ llm_called = FALSE
    /\ llm_items = LLMNone
    /\ llm_response = NoResponse
    /\ result = <<>>

None == "None"

Requests == 1..MaxRequests

HandleKinds == {"easyocr.Reader", "PaddleOCR", "florence_model",
                "florence_processor", "florence_onnx_session"}

HandlesIdle ==
    /\ req_pc = [r \in Requests |-> "idle"]
    /\ req_engine = [r \in Requests |-> None]
    /\ req_size = [r \in Requests |-> None]
    /\ florence_model = None
    /\ florence_processor = None
    /\ florence_onnx_session = None
    /\ constructed = [k \in HandleKinds |-> 0]
    /\ ran_with = [r \in Requests |-> None]

Uploads == 1..MaxUploads

NoFile == <<>>

\* the file names two uploads can share or not
FileNames == {"receipt.jpg", "scan.png"}

UploadsIdle ==
    /\ up_pc = [u \in Uploads |-> "idle"]
    /\ up_name = [u \in Uploads |-> None]
    /\ tmp_files = [f \in FileNames |-> NoFile]
    /\ up_img = [u \in Uploads |-> NoFile]

BatchIdle ==
    /\ batch_size = 0
    /\ batch_pc = "idle"
    /\ batch_results = <<>>
    /\ ocr_calls = <<>>
    /\ stats_total_requests = 0
    /\ stats_error_count = 0

ImportFlags == {"TESSERACT", "EASYOCR", "PADDLE", "FLORENCE", "ONNX"}

NoResult == [error |-> FALSE, method_used |-> None, items |-> None]

EdgeIdle ==
    /\ method = None
    /\ use_production = FALSE
    /\ use_onnx = FALSE
    /\ edge_use_llm = FALSE
    /\ AVAILABLE = [f \in ImportFlags |-> FALSE]
    /\ image_valid = FALSE
    /\ llm_ready = FALSE
    /\ edge_pc = "idle"
    /\ order_idx = 1
    /\ edge_calls = <<>>
    /\ image_loads = 0
    /\ llm_invoked = FALSE
    /\ edge_result = NoResult

OrderIdle ==
    /\ pts = <<>>
    /\ rect = <<>>
    /\ order_pc = "idle"

DeskewIdle ==
    /\ image_size = <<>>
    /\ lines = <<>>
    /\ median_angle = <<>>
    /\ rotated = <<>>
    /\ deskew_pc = "idle"

StagesIdle ==
    /\ contours = <<>>
    /\ persp_result = "None"
    /\ persp_pc = "idle"
    /\ coords = <<>>
    /\ crop_result = "None"
    /\ crop_pc = "idle"

PreprocessIdle ==
    /\ too_large = FALSE
    /\ enable_perspective = FALSE
    /\ enable_deskewing = FALSE
    /\ enable_sharpening = FALSE
    /\ pre_pc = 0
    /\ stages_run = <<>>

ServiceIdle ==
    /\ service = "None"
    /\ svc_pc = "off"
    /\ svc_outcome = "None"
    /\ temp_path = <<>>
    /\ tmp_dir = {}
    /\ svc_total_requests = 0
    /\ svc_error_count = 0
    /\ svc_done = 0

AgentIdle ==
    /\ agent_next = "None"
    /\ status = "None"
    /\ content = "None"
    /\ cart = <<>>
    /\ agent_steps = 0

InitPrice ==
    /\ price_str \in PriceInputs
    /\ price_out = NoPrice
    /\ price_pc = "call"
    /\ ExtIdle
    /\ HandlesIdle
    /\ AgentIdle
    /\ ServiceIdle
    /\ PreprocessIdle
    /\ StagesIdle
    /\ DeskewIdle
    /\ OrderIdle
    /\ EdgeIdle
    /\ BatchIdle
    /\ UploadsIdle

CleanPrice ==
    /\ price_pc = "call"
    /\ price_out' = clean_ocr_price(price_str)
    /\ price_pc' = "returned"
    /\ UNCHANGED <<price_str, outside_price>>

NextPrice == CleanPrice

SpecPrice == InitPrice /\ [][NextPrice]_vars

-----------------------------------------------------------------------------
(* Specification of extract_items_from_text *)

Init ==
    /\ ocr_text \in Texts
    /\ use_llm \in BOOLEAN
    /\ GEMINI_AVAILABLE \in BOOLEAN
    /\ GOOGLE_API_KEY \in BOOLEAN
    /\ ext_pc = "start"
    /\ line_idx = 1
    /\ current_item_lines = <<>>
    /\ candidate_name = <<>>
    /\ robust_items = <<>>
    /\ closing_lines = <<>>
    /\ simple_items = <<>>
    /\ llm_called = FALSE
    /\ llm_items = LLMNone
    /\ llm_response = NoResponse
    /\ result = <<>>
    /\ PriceIdle
    /\ HandlesIdle
    /\ AgentIdle
    /\ ServiceIdle
    /\ PreprocessIdle
    /\ StagesIdle
    /\ DeskewIdle
    /\ OrderIdle
    /\ EdgeIdle
    /\ BatchIdle
    /\ UploadsIdle

LLMEnabled == use_llm /\ GEMINI_AVAILABLE /\ GOOGLE_API_KEY

\* "if use_llm and GEMINI_AVAILABLE and os.getenv('GOOGLE_API_KEY')": the call of
\* the collaborator and the return of a non-empty list
CallLLM ==
    /\ ext_pc = "start"
    /\ LLMEnabled
    /\ \E response \in LLMResponses :
          /\ llm_response' = response
          /\ llm_items' = clean_items_with_llm(GEMINI_AVAILABLE, GOOGLE_API_KEY, response)
    /\ llm_called' = TRUE
    /\ IF LLMRaises(llm_response')
       THEN result' = result /\ ext_pc' = "raised"
       ELSE IF Truthy(llm_items')
       THEN result' = llm_items'.items /\ ext_pc' = "done"
       ELSE result' = result /\ ext_pc' = "robust"
    /\ UNCHANGED <<ocr_text, use_llm, GEMINI_AVAILABLE, GOOGLE_API_KEY, line_idx,
                   current_item_lines, candidate_name, robust_items, closing_lines,
                   simple_items,
                   outside_ext>>

\* the condition is false: the collaborator is not called
SkipLLM ==
    /\ ext_pc = "start"
    /\ ~LLMEnabled
    /\ ext_pc' = "robust"
    /\ UNCHANGED <<ocr_text, use_llm, GEMINI_AVAILABLE, GOOGLE_API_KEY, line_idx,
                   current_item_lines, candidate_name, robust_items, closing_lines,
                   simple_items,
                   llm_called, llm_items, llm_response, result, outside_ext>>

\* "return items" of extract_items_robust: what is left in the buffer is dropped
ReturnedItems_flush(buf, its) ==
    IF buf = <<>> THEN its
    ELSE Append(its, [name |-> Title(Join(buf)), price |-> NoPrice, quantity |-> 1])

ReturnedItems(buf, its) == its

\* the assignments of one iteration
RobustApply(step) ==
    /\ current_item_lines' = step.buf
    /\ robust_items' = step.items
    /\ closing_lines' = IF step.emitted THEN Append(closing_lines, line_idx)
                         ELSE closing_lines

\* extract_items_robust: one iteration of "for line in lines"
RobustLine ==
    /\ ext_pc = "robust"
    /\ line_idx <= Len(ocr_text)
    /\ RobustApply(RobustLineStep(ocr_text[line_idx], current_item_lines, robust_items))
    /\ candidate_name' = CandidateStripped(Strip(ocr_text[line_idx]), current_item_lines,
                                         candidate_name)
    /\ line_idx' = line_idx + 1
    /\ UNCHANGED <<ocr_text, use_llm, GEMINI_AVAILABLE, GOOGLE_API_KEY, ext_pc,
                   simple_items, llm_called, llm_items, llm_response, result, outside_ext>>

\* extract_items_robust returns; "if items: return items", else the simple
\* extraction starts
RobustReturn ==
    /\ ext_pc = "robust"
    /\ line_idx > Len(ocr_text)
    /\ IF ReturnedItems(current_item_lines, robust_items) # <<>>
       THEN /\ result' = ReturnedItems(current_item_lines, robust_items)
            /\ ext_pc' = "done"
            /\ line_idx' = line_idx
       ELSE result' = result /\ ext_pc' = "simple" /\ line_idx' = 1
    /\ UNCHANGED <<ocr_text, use_llm, GEMINI_AVAILABLE, GOOGLE_API_KEY,
                   current_item_lines, candidate_name, robust_items, closing_lines,
                   simple_items,
                   llm_called, llm_items, llm_response, outside_ext>>

\* the simple extraction: one iteration of "for line in lines"
SimpleLine ==
    /\ ext_pc = "simple"
    /\ line_idx <= Len(ocr_text)
    /\ simple_items' = SimpleLineStep(ocr_text[line_idx], simple_items)
    /\ line_idx' = line_idx + 1
    /\ UNCHANGED <<ocr_text, use_llm, GEMINI_AVAILABLE, GOOGLE_API_KEY, ext_pc,
                   current_item_lines, candidate_name, robust_items, closing_lines,
                   llm_called, llm_items, llm_response, result, outside_ext>>

\* "return items" of the simple extraction
SimpleReturn ==
    /\ ext_pc = "simple"
    /\ line_idx > Len(ocr_text)
    /\ result' = simple_items
    /\ ext_pc' = "done"
    /\ UNCHANGED <<ocr_text, use_llm, GEMINI_AVAILABLE, GOOGLE_API_KEY, line_idx,
                   current_item_lines, candidate_name, robust_items, closing_lines,
                   simple_items,
                   llm_called, llm_items, llm_response, outside_ext>>

Next ==
    \/ CallLLM
    \/ SkipLLM
    \/ RobustLine
    \/ RobustReturn
    \/ SimpleLine
    \/ SimpleReturn

Spec == Init /\ [][Next]_vars

-----------------------------------------------------------------------------
(* Specification of the OCR engine handles: requests call easyocr_ocr,
   paddle_ocr, florence_ocr or florence_ocr_onnx; the callers are threads, and
   the functions hold no lock, so the statements of two requests interleave *)

Engines == {"easyocr_ocr", "paddle_ocr", "florence_ocr", "florence_ocr_onnx"}

ModelSizes == {"base", "large"}

\* the sizes a request of an engine can ask for: only the Florence functions
\* take a model_size
SizesOf(engine) ==
    IF engine \in {"florence_ocr", "florence_ocr_onnx"} THEN ModelSizes ELSE {None}

\* the first statement of each function that touches a handle
EntryOf(engine) ==
    CASE engine = "easyocr_ocr" -> "reader"
      [] engine = "paddle_ocr" -> "paddle"
      [] engine = "florence_ocr" -> "check"
      [] engine = "florence_ocr_onnx" -> "session"

Construct(kind) == [constructed EXCEPT ![kind] = @ + 1]

\* "_florence_onnx_session.get_session_options() != onnx_model_path" compares an
\* onnxruntime SessionOptions object with a str: they are never equal
SessionOptionsEqualPath == FALSE

InitHandles ==
    /\ HandlesIdle
    /\ AgentIdle
    /\ ServiceIdle
    /\ PreprocessIdle
    /\ StagesIdle
    /\ DeskewIdle
    /\ OrderIdle
    /\ EdgeIdle
    /\ BatchIdle
    /\ UploadsIdle
    /\ PriceIdle
    /\ ExtIdle

\* a caller invokes one of the OCR functions
StartRequest(r) ==
    /\ req_pc[r] = "idle"
    /\ \E engine \in Engines : \E size \in SizesOf(engine) :
          /\ req_engine' = [req_engine EXCEPT ![r] = engine]
          /\ req_size' = [req_size EXCEPT ![r] = size]
          /\ req_pc' = [req_pc EXCEPT ![r] = EntryOf(engine)]
    /\ UNCHANGED <<florence_model, florence_processor, florence_onnx_session,
                   constructed, ran_with, outside_handles>>

\* easyocr_ocr: "reader = easyocr.Reader(['en'], ...)" and "reader.readtext"
easyocr_ocr(r) ==
    /\ req_pc[r] = "reader"
    /\ constructed' = Construct("easyocr.Reader")
    /\ req_pc' = [req_pc EXCEPT ![r] = "done"]
    /\ UNCHANGED <<req_engine, req_size, florence_model, florence_processor,
                   florence_onnx_session, ran_with, outside_handles>>

\* paddle_ocr: "ocr = PaddleOCR(...)" and "ocr.ocr"
paddle_ocr(r) ==
    /\ req_pc[r] = "paddle"
    /\ constructed' = Construct("PaddleOCR")
    /\ req_pc' = [req_pc EXCEPT ![r] = "done"]
    /\ UNCHANGED <<req_engine, req_size, florence_model, florence_processor,
                   florence_onnx_session, ran_with, outside_handles>>

\* florence_ocr: "if _florence_model is None or _florence_processor is None"
FlorenceCheck(r) ==
    /\ req_pc[r] = "check"
    /\ req_pc' = [req_pc EXCEPT ![r] =
                     IF florence_model = None \/ florence_processor = None
                     THEN "load_processor" ELSE "generate"]
    /\ UNCHANGED <<req_engine, req_size, florence_model, florence_processor,
                   florence_onnx_session, constructed, ran_with, outside_handles>>

\* florence_ocr: "_florence_processor = AutoProcessor.from_pretrained(...)"
FlorenceLoadProcessor(r) ==
    /\ req_pc[r] = "load_processor"
    /\ florence_processor' = req_size[r]
    /\ constructed' = Construct("florence_processor")
    /\ req_pc' = [req_pc EXCEPT ![r] = "load_model"]
    /\ UNCHANGED <<req_engine, req_size, florence_model, florence_onnx_session,
                   ran_with, outside_handles>>

\* florence_ocr: "_florence_model = AutoModelForCausalLM.from_pretrained(...)"
FlorenceLoadModel(r) ==
    /\ req_pc[r] = "load_model"
    /\ florence_model' = req_size[r]
    /\ constructed' = Construct("florence_model")
    /\ req_pc' = [req_pc EXCEPT ![r] = "generate"]
    /\ UNCHANGED <<req_engine, req_size, florence_processor, florence_onnx_session,
                   ran_with, outside_handles>>

\* florence_ocr: "_florence_model.generate(...)" with the global as it is now
FlorenceGenerate(r) ==
    /\ req_pc[r] = "generate"
    /\ ran_with' = [ran_with EXCEPT ![r] = florence_model]
    /\ req_pc' = [req_pc EXCEPT ![r] = "done"]
    /\ UNCHANGED <<req_engine, req_size, florence_model, florence_processor,
                   florence_onnx_session, constructed, outside_handles>>

\* the session florence_ocr_onnx leaves in the global
SessionAfter(load, size) == IF load THEN size ELSE florence_onnx_session

ConstructedAfter(load, kind) == IF load THEN Construct(kind) ELSE constructed

\* florence_ocr_onnx: "if _florence_onnx_session is None or
\* _florence_onnx_session.get_session_options() != onnx_model_path"
OnnxLoadSession(r) ==
    /\ req_pc[r] = "session"
    /\ florence_onnx_session' =
          SessionAfter(florence_onnx_session = None \/ ~SessionOptionsEqualPath,
                       req_size[r])
    /\ constructed' =
          ConstructedAfter(florence_onnx_session = None \/ ~SessionOptionsEqualPath,
                           "florence_onnx_session")
    /\ req_pc' = [req_pc EXCEPT ![r] = "processor"]
    /\ UNCHANGED <<req_engine, req_size, florence_model, florence_processor,
                   ran_with, outside_handles>>

\* florence_ocr_onnx: "if _florence_processor is None"
OnnxLoadProcessor(r) ==
    /\ req_pc[r] = "processor"
    /\ florence_processor' =
          IF florence_processor = None THEN req_size[r] ELSE florence_processor
    /\ constructed' = ConstructedAfter(florence_processor = None, "florence_processor")
    /\ req_pc' = [req_pc EXCEPT ![r] = "run"]
    /\ UNCHANGED <<req_engine, req_size, florence_model, florence_onnx_session,
                   ran_with, outside_handles>>

\* florence_ocr_onnx: "_florence_onnx_session.run(None, onnx_inputs)"
OnnxRun(r) ==
    /\ req_pc[r] = "run"
    /\ ran_with' = [ran_with EXCEPT ![r] = florence_onnx_session]
    /\ req_pc' = [req_pc EXCEPT ![r] = "done"]
    /\ UNCHANGED <<req_engine, req_size, florence_model, florence_processor,
                   florence_onnx_session, constructed, outside_handles>>

NextHandles ==
    \E r \in Requests :
        \/ StartRequest(r)
        \/ easyocr_ocr(r)
        \/ paddle_ocr(r)
        \/ FlorenceCheck(r)
        \/ FlorenceLoadProcessor(r)
        \/ FlorenceLoadModel(r)
        \/ FlorenceGenerate(r)
        \/ OnnxLoadSession(r)
        \/ OnnxLoadProcessor(r)
        \/ OnnxRun(r)

SpecHandles == InitHandles /\ [][NextHandles]_vars

-----------------------------------------------------------------------------
(* Properties of clean_ocr_price *)

Str_S150 == <<"S","1",".","5","0">>
Str_Pound150 == <<"£","1",".","5","0">>
Str_1_30 == <<"1"," ",".","3","0">>
Str_8285 == <<"8","2",",","8","5">>
Str_abc == <<"a","b","c">>

Returned(s) == price_pc = "returned" /\ price_str = s

\* the text is one optional garbled character, digits, a separator with optional
\* whitespace around it, and two digits
GarbledFrom(s) ==
    IF s # <<>> /\ ~IsAsciiDigit(s[1]) /\ ~IsSep(s[1]) /\ ~IsSpace(s[1]) THEN 2 ELSE 1

IsGarbledPrice(s) ==
    LET i0 == GarbledFrom(s)
        e == DigitsEnd(s, i0)
        a == SpaceEnd(s, e)
        b == IF a <= Len(s) THEN SpaceEnd(s, a + 1) ELSE a
    IN  /\ e > i0
        /\ a <= Len(s)
        /\ IsSep(s[a])
        /\ b + 1 = Len(s)
        /\ IsAsciiDigit(s[b])
        /\ IsAsciiDigit(s[b + 1])

GarbledPriceCents(s) ==
    LET i0 == GarbledFrom(s)
        e == DigitsEnd(s, i0)
    IN  100 * DigitsVal(SubSeq(s, i0, e - 1)) + DigitsVal(SubSeq(s, Len(s) - 1, Len(s)))

\* the text is characters that are neither digits nor separators, then digits
TrailingFrom(s) ==
    CHOOSE i \in 1..(Len(s) + 1) :
        /\ \A j \in i..Len(s) : IsAsciiDigit(s[j])
        /\ (i = 1 \/ ~IsAsciiDigit(s[i - 1]))

IsBareInteger(s) ==
    /\ TrailingFrom(s) <= Len(s)
    /\ \A j \in 1..(TrailingFrom(s) - 1) : ~IsAsciiDigit(s[j]) /\ ~IsSep(s[j])

\* C6: clean_ocr_price normalises the garbled forms of the docstring ('S1.50'
\* and '£1.50' to 1.50, '1 .30' to 1.30, '82,85' to 82.85), every text of the
\* shape [garbled character] digits [space] separator [space] two digits to
\* that decimal, and a bare integer after a prefix without digits to its value
C6_PriceNormalised ==
    price_pc = "returned" =>
        /\ (price_str = Str_S150 => price_out = <<150>>)
        /\ (price_str = Str_Pound150 => price_out = <<150>>)
        /\ (price_str = Str_1_30 => price_out = <<130>>)
        /\ (price_str = Str_8285 => price_out = <<8285>>)
        /\ (IsGarbledPrice(price_str) => price_out = <<GarbledPriceCents(price_str)>>)
        /\ (IsBareInteger(price_str) =>
               price_out = <<100 * DigitsVal(From(price_str, TrailingFrom(price_str)))>>)

C6_Witness == Returned(Str_1_30) /\ price_out = <<130>>

\* the digits and separators of the text, in order
DigitsAndSeps(s) == SelectSeq(s, LAMBDA c : IsAsciiDigit(c) \/ IsSep(c))

\* no digit, separator, digit in a row among them, and no digit at their end
NoDigitPair(s) ==
    LET k == DigitsAndSeps(s)
    IN  /\ \A i \in 1..(Len(k) - 2) :
              ~(IsAsciiDigit(k[i]) /\ IsSep(k[i + 1]) /\ IsAsciiDigit(k[i + 2]))
        /\ (k = <<>> \/ ~IsAsciiDigit(k[Len(k)]))

\* C7: clean_ocr_price returns either None or a non-negative amount, and None
\* for every text with no extractable digit pair ('abc', the empty text)
C7_NullWithoutDigits ==
    price_pc = "returned" =>
        /\ (price_out = NoPrice \/ (Len(price_out) = 1 /\ price_out[1] \in Nat))
        /\ (NoDigitPair(price_str) => price_out = NoPrice)
        /\ (price_str \in {Str_abc, <<>>} => price_out = NoPrice)

C7_Witness == Returned(Str_abc) /\ price_out = NoPrice /\ NoDigitPair(price_str)

-----------------------------------------------------------------------------
(* Properties of extract_items_from_text *)

Str_vat == <<"v","a","t">>
Str_total == <<"t","o","t","a","l">>
Str_clubcard == <<"c","l","u","b","c","a","r","d">>
Str_TomatoSoup == <<"T","o","m","a","t","o"," ","S","o","u","p">>
Str_TotalLine == <<"T","O","T","A","L"," ","£","4",".","0","5">>
Str_Tesco == <<"T","E","S","C","O">>

\* the collaborator was called and answered with a non-empty list
LLMSucceeded ==
    /\ use_llm /\ GEMINI_AVAILABLE /\ GOOGLE_API_KEY
    /\ ~llm_items.is_none
    /\ llm_items.items # <<>>

\* C1: the strategies are tried in a fixed order. The LLM result is returned
\* exactly when LLM use is enabled and available and the collaborator answered
\* with a non-empty list; otherwise the result of extract_items_robust is
\* returned when it has an item, and the simple extraction runs, and is
\* returned, only when extract_items_robust produced nothing
C1_StrategyOrder ==
    /\ (llm_called <=> (ext_pc # "start" /\ use_llm /\ GEMINI_AVAILABLE /\ GOOGLE_API_KEY))
    /\ (ext_pc = "simple" => robust_items = <<>>)
    /\ (simple_items # <<>> => robust_items = <<>>)
    /\ (ext_pc = "done" =>
           IF LLMSucceeded
           THEN /\ result = llm_items.items
                /\ line_idx = 1
                /\ robust_items = <<>>
                /\ simple_items = <<>>
           ELSE /\ line_idx > Len(ocr_text)
                /\ IF robust_items # <<>>
                   THEN result = robust_items /\ simple_items = <<>>
                   ELSE result = simple_items)

C1_Witness ==
    /\ ext_pc = "done"
    /\ llm_called
    /\ ~llm_items.is_none
    /\ llm_items.items = <<>>
    /\ robust_items # <<>>
    /\ result = robust_items

\* the candidate of the first line, as the claim reads it: the quantity token
\* at the start of the text before the price, and the rest as the name
FirstLine == Strip(ocr_text[1])
FirstNamePart == Strip(Before(FirstLine, PriceEndStart(FirstLine)))
FirstQuantity == DigitsVal(Before(FirstNamePart, DigitsEnd(FirstNamePart, 1)))
FirstRest == From(FirstNamePart, QtyNameStart(FirstNamePart))

HasQuantityToken ==
    /\ Len(FirstLine) >= 2
    /\ PriceEndStart(FirstLine) > 0
    /\ LinePrice(FirstLine) # NoPrice
    /\ QtyNameStart(FirstNamePart) > 0
    /\ FirstQuantity >= 1
    /\ Len(FirstRest) > 3
    /\ RemoveNoise(FirstRest) = FirstRest
    /\ ~HasSkipKeyword(FirstNamePart)

\* C2: a candidate that starts with a quantity token ('3 x Bread Rolls 1.20')
\* gives an item with that quantity, the rest of the text as its name and the
\* price of the line
C2_QuantityToken ==
    (ext_pc = "robust" /\ line_idx = 2 /\ HasQuantityToken) =>
        robust_items = <<[name |-> Title(FirstRest), price |-> LinePrice(FirstLine),
                          quantity |-> FirstQuantity]>>

\* C3: every item of the result, whatever strategy produced it, has a name
\* without any skip keyword
C3_NoSkipKeywordInResult ==
    ext_pc = "done" => \A i \in DOMAIN result : ~HasSkipKeyword(result[i].name)

\* the line at line_idx carries a price and closes a candidate whose name
\* holds 'clubcard', 'total' or 'vat' in any letter case
ClosesKeywordCandidate ==
    /\ ext_pc = "robust"
    /\ line_idx <= Len(ocr_text)
    /\ LET line == Strip(ocr_text[line_idx])
       IN  /\ Len(line) >= 2
           /\ PriceEndStart(line) > 0
           /\ LinePrice(line) # NoPrice
           /\ \E k \in {Str_clubcard, Str_total, Str_vat} :
                 Contains(Lower(FullName(current_item_lines,
                                         Strip(Before(line, PriceEndStart(line))))), k)

NoVatOrTotal(its) ==
    \A i \in DOMAIN its :
        /\ ~Contains(Lower(its[i].name), Str_vat)
        /\ ~Contains(Lower(its[i].name), Str_total)

\* C4: extract_items_robust emits no item for a candidate whose name contains
\* 'clubcard', 'total' or 'vat' in any letter case, even with a valid price,
\* and the receipt of the example never gives an item named after VAT or TOTAL
C4_KeywordCandidateDiscarded ==
    /\ [][ClosesKeywordCandidate =>
             (robust_items' = robust_items /\ current_item_lines' = <<>>)]_vars
    /\ [](ocr_text = ExampleText => NoVatOrTotal(robust_items) /\ NoVatOrTotal(result))

C4_Witness ==
    /\ ocr_text = <<Str_TomatoSoup, Str_TotalLine>>
    /\ ext_pc = "robust"
    /\ line_idx = 3
    /\ robust_items = <<>>
    /\ current_item_lines = <<>>

\* C5: every item of the result has a non-empty name and a quantity of at
\* least 1
C5_NameAndQuantity ==
    ext_pc = "done" =>
        \A i \in DOMAIN result : result[i].name # <<>> /\ result[i].quantity >= 1

AllUnpriced(its) == \A i \in DOMAIN its : its[i].price = NoPrice

\* C8: when extract_items_robust produces no item, the simple extraction starts
\* from the first line, the result is exactly its output, and every item of it
\* has no price
C8_FallbackIsSimple ==
    /\ [][(ext_pc = "robust" /\ ext_pc' # "robust") =>
             IF robust_items = <<>>
             THEN ext_pc' = "simple" /\ line_idx' = 1 /\ simple_items' = <<>>
             ELSE ext_pc' = "done"]_vars
    /\ [][(ext_pc = "simple" /\ ext_pc' # "simple") =>
             (ext_pc' = "done" /\ result' = simple_items /\ line_idx > Len(ocr_text))]_vars
    /\ []((ext_pc = "done" /\ ~LLMSucceeded /\ robust_items = <<>>) =>
             (result = simple_items /\ AllUnpriced(result)))

C8_Witness ==
    /\ ext_pc = "done"
    /\ ~llm_called
    /\ robust_items = <<>>
    /\ ocr_text = <<Str_Tesco, Str_TomatoSoup>>
    /\ Len(result) = 2
    /\ result = simple_items
    /\ AllUnpriced(result)

\* C9: every item of extract_items_robust carries a price, the value
\* clean_ocr_price gives for the price matched on the line that closed the
\* item; no item of the simple extraction carries one
C9_PricePresence ==
    /\ Len(closing_lines) = Len(robust_items)
    /\ \A k \in DOMAIN robust_items :
          /\ robust_items[k].price # NoPrice
          /\ robust_items[k].price = LinePrice(Strip(ocr_text[closing_lines[k]]))
    /\ AllUnpriced(simple_items)
    /\ (ext_pc = "done" /\ ~LLMSucceeded /\ robust_items # <<>> => ~AllUnpriced(result))

C9_Witness ==
    /\ ext_pc = "done"
    /\ Len(robust_items) = 2
    /\ robust_items[1].price # robust_items[2].price
    /\ result = robust_items

\* C10: each kind of engine handle (EasyOCR reader, PaddleOCR instance, Florence
\* model, Florence processor, Florence ONNX session) is constructed at most
\* once, whatever requests are made and however they interleave
C10_ConstructedAtMostOnce ==
    \A k \in HandleKinds : constructed[k] <= 1

-----------------------------------------------------------------------------
(* Specification of the uploads of the Flask service: ocr_receipt saves the
   upload under its own file name in the temporary directory, loads it, runs
   the OCR and removes the file; the server handles requests in threads *)

InitUploads ==
    /\ UploadsIdle
    /\ PriceIdle
    /\ ExtIdle
    /\ HandlesIdle
    /\ AgentIdle
    /\ ServiceIdle
    /\ PreprocessIdle
    /\ StagesIdle
    /\ DeskewIdle
    /\ OrderIdle
    /\ EdgeIdle
    /\ BatchIdle

\* "filepath = os.path.join(temp_dir, filename)" and "file.save(filepath)"
UploadSave(u) ==
    /\ up_pc[u] = "idle"
    /\ \E name \in FileNames :
          /\ up_name' = [up_name EXCEPT ![u] = name]
          /\ tmp_files' = [tmp_files EXCEPT ![name] = <<u>>]
    /\ up_pc' = [up_pc EXCEPT ![u] = "saved"]
    /\ UNCHANGED <<up_img, outside_upload>>

\* "img = load_image(filepath)": Image.open raises when the file is gone, the
\* finally clause finds nothing to remove and the handler answers 500
UploadLoad(u) ==
    /\ up_pc[u] = "saved"
    /\ up_img' = [up_img EXCEPT ![u] = tmp_files[up_name[u]]]
    /\ up_pc' = [up_pc EXCEPT ![u] =
                    IF tmp_files[up_name[u]] = NoFile THEN "failed" ELSE "loaded"]
    /\ UNCHANGED <<up_name, tmp_files, outside_upload>>

\* the OCR and the extraction of the items
UploadOcr(u) ==
    /\ up_pc[u] = "loaded"
    /\ up_pc' = [up_pc EXCEPT ![u] = "ocr_done"]
    /\ UNCHANGED <<up_name, tmp_files, up_img, outside_upload>>

\* "finally: if os.path.exists(filepath): os.remove(filepath)"
UploadCleanup(u) ==
    /\ up_pc[u] = "ocr_done"
    /\ tmp_files' = [tmp_files EXCEPT ![up_name[u]] = NoFile]
    /\ up_pc' = [up_pc EXCEPT ![u] = "done"]
    /\ UNCHANGED <<up_name, up_img, outside_upload>>

\* a client sends another request on the same connection slot
UploadAgain(u) ==
    /\ up_pc[u] \in {"done", "failed"}
    /\ up_pc' = [up_pc EXCEPT ![u] = "idle"]
    /\ up_name' = [up_name EXCEPT ![u] = None]
    /\ up_img' = [up_img EXCEPT ![u] = NoFile]
    /\ UNCHANGED <<tmp_files, outside_upload>>

NextUploads ==
    \E u \in Uploads :
        \/ UploadSave(u)
        \/ UploadLoad(u)
        \/ UploadOcr(u)
        \/ UploadCleanup(u)
        \/ UploadAgain(u)

SpecUploads == InitUploads /\ [][NextUploads]_vars

\* C11: the file an upload saved stays present, with that upload's bytes, from
\* the save until the upload's own OCR has finished, whatever other uploads do
C11_UploadFileKept ==
    \A u \in Uploads :
        up_pc[u] \in {"saved", "loaded"} => tmp_files[up_name[u]] = <<u>>

-----------------------------------------------------------------------------
(* Specification of process_receipts_batch (POST /ocr/batch) *)

\* "if len(files) > 10"
BatchLimit == 10

TooMany_eleven(n) == n > BatchLimit + 1

TooMany(n) == n > BatchLimit

InitBatch ==
    /\ batch_size \in 0..MaxBatch
    /\ batch_pc = "start"
    /\ batch_results = <<>>
    /\ ocr_calls = <<>>
    /\ stats_total_requests = 0
    /\ stats_error_count = 0
    /\ PriceIdle
    /\ ExtIdle
    /\ HandlesIdle
    /\ AgentIdle
    /\ ServiceIdle
    /\ PreprocessIdle
    /\ StagesIdle
    /\ DeskewIdle
    /\ OrderIdle
    /\ EdgeIdle
    /\ UploadsIdle

\* "raise HTTPException(status_code=400, ...)" before the loop
BatchReject ==
    /\ batch_pc = "start"
    /\ TooMany(batch_size)
    /\ batch_pc' = "rejected"
    /\ UNCHANGED <<batch_size, batch_results, ocr_calls, stats_total_requests,
                   stats_error_count, outside_batch>>

\* what process_receipt does to the statistics: stats.update on a result,
\* stats.record_error on an error result or an exception
StatsAfter(count, hit) == IF hit THEN count + 1 ELSE count

\* one iteration of "for file in files": "await process_receipt(file=file,
\* method=method)" calls process_receipt_edge on the saved file and ends with a
\* response or with an HTTPException that the loop records
BatchFile ==
    /\ batch_pc = "start"
    /\ ~TooMany(batch_size)
    /\ Len(batch_results) < batch_size
    /\ ocr_calls' = Append(ocr_calls, Len(batch_results) + 1)
    /\ \E success \in BOOLEAN :
          /\ batch_results' = Append(batch_results,
                                     [file |-> Len(batch_results) + 1, success |-> success])
          /\ stats_total_requests' = StatsAfter(stats_total_requests, success)
          /\ stats_error_count' = StatsAfter(stats_error_count, ~success)
    /\ UNCHANGED <<batch_size, batch_pc, outside_batch>>

\* "return {'total': len(files), ...}"
BatchReturn ==
    /\ batch_pc = "start"
    /\ ~TooMany(batch_size)
    /\ Len(batch_results) = batch_size
    /\ batch_pc' = "returned"
    /\ UNCHANGED <<batch_size, batch_results, ocr_calls, stats_total_requests,
                   stats_error_count, outside_batch>>

NextBatch ==
    \/ BatchReject
    \/ BatchFile
    \/ BatchReturn

SpecBatch == InitBatch /\ [][NextBatch]_vars

\* C12: a batch of more than 10 files is rejected before any file is
\* processed (no OCR call, no statistic changed, no result); a batch of at most
\* 10 files is never rejected and its files are processed one after another in
\* the submitted order, all of them before the answer
C12_BatchCap ==
    /\ (batch_size > 10 =>
           /\ batch_pc \in {"start", "rejected"}
           /\ ocr_calls = <<>>
           /\ batch_results = <<>>
           /\ stats_total_requests = 0
           /\ stats_error_count = 0)
    /\ (batch_size <= 10 =>
           /\ batch_pc # "rejected"
           /\ ocr_calls = [i \in 1..Len(ocr_calls) |-> i]
           /\ Len(batch_results) = Len(ocr_calls)
           /\ \A i \in DOMAIN batch_results : batch_results[i].file = i
           /\ stats_total_requests + stats_error_count = Len(ocr_calls)
           /\ (batch_pc = "returned" => Len(ocr_calls) = batch_size))

C12_Witness ==
    /\ batch_size = 11
    /\ batch_pc = "rejected"
    /\ ocr_calls = <<>>

-----------------------------------------------------------------------------
(* Specification of process_receipt_edge.  What an adapter returns is "text"
   (recognized text), "error_text" (recognized text that happens to begin with
   "Error:") or "marker" (the string "Error: ..." an adapter returns when it
   cannot produce output) *)

Methods == {"auto", "tesseract", "easyocr", "paddle", "florence", "florence-onnx",
            "production"}

InitEdge ==
    /\ method \in Methods
    /\ use_production \in BOOLEAN
    /\ use_onnx \in BOOLEAN
    /\ edge_use_llm \in BOOLEAN
    /\ AVAILABLE \in [ImportFlags -> BOOLEAN]
    /\ image_valid \in BOOLEAN
    /\ llm_ready \in BOOLEAN
    /\ edge_pc = "start"
    /\ order_idx = 1
    /\ edge_calls = <<>>
    /\ image_loads = 0
    /\ llm_invoked = FALSE
    /\ edge_result = NoResult
    /\ PriceIdle
    /\ ExtIdle
    /\ HandlesIdle
    /\ AgentIdle
    /\ ServiceIdle
    /\ PreprocessIdle
    /\ StagesIdle
    /\ DeskewIdle
    /\ OrderIdle
    /\ UploadsIdle
    /\ BatchIdle

\* "raw_text.startswith('Error:')"
StartsWithError(outcome) == outcome \in {"marker", "error_text"}

\* "order = [...]" of the standard methods
StandardOrder ==
    IF method = "auto"
    THEN <<IF use_onnx THEN "florence-onnx" ELSE "florence", "paddle", "easyocr",
           "tesseract">>
    ELSE <<method>>

\* the first component of methods.get(m, (False, None))
MethodAvailable(m) ==
    CASE m = "tesseract" -> AVAILABLE["TESSERACT"]
      [] m = "easyocr" -> AVAILABLE["EASYOCR"]
      [] m = "paddle" -> AVAILABLE["PADDLE"]
      [] m = "florence" -> AVAILABLE["FLORENCE"]
      [] m = "florence-onnx" -> AVAILABLE["FLORENCE"] /\ AVAILABLE["ONNX"]
      [] OTHER -> FALSE

\* the adapter behind m passes its own import guards: florence_ocr with
\* use_onnx goes to florence_ocr_onnx, which needs ONNX_AVAILABLE
PassesGuards(m) ==
    /\ MethodAvailable(m)
    /\ ((m = "florence-onnx" \/ (m = "florence" /\ use_onnx)) => AVAILABLE["ONNX"])

\* the engines production_ocr walks: engine = 'auto' if method == 'production'
\* else method
ProductionHasEngine ==
    \E e \in {"paddle", "easyocr", "tesseract"} :
        (method = "production" \/ method = e) /\ MethodAvailable(e)

\* what an adapter can return: it opens the image inside its try, so a file
\* that cannot be decoded gives the marker, as does a missing import
AdapterOutcomes(ready) ==
    IF ready /\ image_valid THEN {"text", "error_text", "marker"} ELSE {"marker"}

\* production_ocr opens the image before any try: the exception of Image.open
\* leaves production_ocr and process_receipt_edge
ProductionOutcomes ==
    IF image_valid THEN AdapterOutcomes(ProductionHasEngine) ELSE {"raise"}

LoadsAfter(ready) == IF ready THEN image_loads + 1 ELSE image_loads

\* the 'method_used' of a result of the standard methods
MethodUsed(m) == IF m = "florence" THEN "florence-2" ELSE m

FlorenceLabel ==
    IF use_onnx \/ method = "florence-onnx" THEN "florence-2-onnx-quantized"
    ELSE "florence-2"

ErrorResult == [error |-> TRUE, method_used |-> None, items |-> <<>>]

\* after a call of an adapter m that returned outcome: the result is returned
\* with the items of extract_items_from_text(raw_text, use_llm = llm_arg), or
\* the function goes on at next_pc
EdgeAfterCall(m, outcome, label, llm_arg, next_pc, next_idx) ==
    /\ edge_calls' = Append(edge_calls, [engine |-> m, outcome |-> outcome,
                                         skipped |-> StartsWithError(outcome)])
    /\ IF StartsWithError(outcome)
       THEN /\ edge_pc' = next_pc
            /\ order_idx' = next_idx
            /\ UNCHANGED <<edge_result, llm_invoked>>
       ELSE /\ edge_pc' = "done"
            /\ order_idx' = order_idx
            /\ edge_result' = [error |-> FALSE, method_used |-> label,
                               items |-> outcome]
            /\ llm_invoked' = (llm_arg /\ llm_ready)

edge_args == <<method, use_production, use_onnx, edge_use_llm, AVAILABLE, image_valid,
               llm_ready>>

\* "if method == 'production' or use_production": production_ocr
EdgeProduction ==
    /\ edge_pc = "start"
    /\ method = "production" \/ use_production
    /\ image_loads' = image_loads + 1
    /\ \E outcome \in ProductionOutcomes :
          IF outcome = "raise"
          THEN /\ edge_pc' = "raised"
               /\ UNCHANGED <<order_idx, edge_calls, llm_invoked, edge_result>>
          ELSE EdgeAfterCall("production", outcome, "production", edge_use_llm,
                             "florence", order_idx)
    /\ UNCHANGED <<edge_args, outside_edge>>

EdgeNoProduction ==
    /\ edge_pc = "start"
    /\ ~(method = "production" \/ use_production)
    /\ edge_pc' = "florence"
    /\ UNCHANGED <<edge_args, order_idx, edge_calls, image_loads, llm_invoked,
                   edge_result, outside_edge>>

\* "if method in ['florence', 'florence-onnx'] and FLORENCE_AVAILABLE": the
\* items come from extract_items_from_text(raw_text), whose use_llm defaults
\* to True
EdgeFlorence ==
    /\ edge_pc = "florence"
    /\ method \in {"florence", "florence-onnx"} /\ AVAILABLE["FLORENCE"]
    /\ image_loads' = LoadsAfter(PassesGuards(method))
    /\ \E outcome \in AdapterOutcomes(PassesGuards(method)) :
          EdgeAfterCall(method, outcome, FlorenceLabel, TRUE, "standard", order_idx)
    /\ UNCHANGED <<edge_args, outside_edge>>

EdgeNoFlorence ==
    /\ edge_pc = "florence"
    /\ ~(method \in {"florence", "florence-onnx"} /\ AVAILABLE["FLORENCE"])
    /\ edge_pc' = "standard"
    /\ UNCHANGED <<edge_args, order_idx, edge_calls, image_loads, llm_invoked,
                   edge_result, outside_edge>>

\* "for m in order": "if available and func: raw_text = func(image_path)"
EdgeTryEngine ==
    /\ edge_pc = "standard"
    /\ order_idx <= Len(StandardOrder)
    /\ MethodAvailable(StandardOrder[order_idx])
    /\ image_loads' = LoadsAfter(PassesGuards(StandardOrder[order_idx]))
    /\ \E outcome \in AdapterOutcomes(PassesGuards(StandardOrder[order_idx])) :
          EdgeAfterCall(StandardOrder[order_idx], outcome,
                        MethodUsed(StandardOrder[order_idx]), edge_use_llm,
                        "standard", order_idx + 1)
    /\ UNCHANGED <<edge_args, outside_edge>>

\* the engine is not installed, or the method names no engine
EdgeSkipEngine ==
    /\ edge_pc = "standard"
    /\ order_idx <= Len(StandardOrder)
    /\ ~MethodAvailable(StandardOrder[order_idx])
    /\ order_idx' = order_idx + 1
    /\ UNCHANGED <<edge_args, edge_pc, edge_calls, image_loads, llm_invoked,
                   edge_result, outside_edge>>

\* "return {'error': 'No OCR engine available. ...', 'items': [], ...}"
EdgeNoEngine ==
    /\ edge_pc = "standard"
    /\ order_idx > Len(StandardOrder)
    /\ edge_pc' = "done"
    /\ edge_result' = ErrorResult
    /\ UNCHANGED <<edge_args, order_idx, edge_calls, image_loads, llm_invoked,
                   outside_edge>>

NextEdge ==
    \/ EdgeProduction
    \/ EdgeNoProduction
    \/ EdgeFlorence
    \/ EdgeNoFlorence
    \/ EdgeTryEngine
    \/ EdgeSkipEngine
    \/ EdgeNoEngine

SpecEdge == InitEdge /\ [][NextEdge]_vars

\* C13: when the image cannot be decoded the request fails at once: no second
\* adapter is tried, the image is not opened again, and the request ends with
\* the error result
C13_InvalidImageIsFatal ==
    ~image_valid /\ edge_pc # "idle" =>
        /\ Len(edge_calls) <= 1
        /\ image_loads <= 1
        /\ (edge_pc = "done" => edge_result.error)

\* C14: process_receipt_edge always ends by returning a result, never by a
\* raised error; the result of a failure carries the error and no item
C14_NoRaisedError ==
    /\ edge_pc # "raised"
    /\ (edge_pc = "done" /\ edge_result.error => edge_result.items = <<>>)

RecognizedText == {"text", "error_text"}

\* C15: with method 'auto' (and no production preprocessing) the adapters
\* called are the installed engines of the preference order, in that order,
\* up to the first that returns recognized text; that engine's result is
\* returned under its name, and the error result is returned only when no
\* installed engine returned recognized text
C15_FirstEngineWins ==
    (method = "auto" /\ ~use_production /\ edge_pc = "done") =>
        /\ \A i \in DOMAIN edge_calls :
              edge_calls[i].outcome \in RecognizedText =>
                  /\ i = Len(edge_calls)
                  /\ ~edge_result.error
                  /\ edge_result.method_used = MethodUsed(edge_calls[i].engine)
        /\ (edge_result.error =>
               /\ \A i \in DOMAIN edge_calls : edge_calls[i].outcome = "marker"
               /\ \A j \in DOMAIN StandardOrder :
                     MethodAvailable(StandardOrder[j]) =>
                         \E i \in DOMAIN edge_calls :
                             edge_calls[i].engine = StandardOrder[j])

\* C16: the caller takes what an adapter returned for a failure exactly when
\* the adapter failed: recognized text is never skipped as a failure, and a
\* failure marker never becomes the text the items are extracted from
C16_MarkerDistinguishable ==
    \A i \in DOMAIN edge_calls :
        edge_calls[i].skipped <=> (edge_calls[i].outcome = "marker")

\* C17: when the caller passes use_llm = false, process_receipt_edge never
\* invokes clean_items_with_llm
C17_LLMOnlyIfEnabled ==
    (edge_pc # "idle" /\ ~edge_use_llm) => ~llm_invoked

-----------------------------------------------------------------------------
(* The LLM collaborator's failures *)

\* the collaborator could not give a list: the library or the key is missing,
\* or the call was made and the answer was no list
LLMFailed ==
    \/ ~GEMINI_AVAILABLE
    \/ ~GOOGLE_API_KEY
    \/ (llm_called /\ llm_response.kind # "list")

\* C18: every failure of the LLM collaborator is soft: clean_items_with_llm
\* gives no list and raises nothing, extract_items_robust runs next and the
\* simple extraction after it, and the result is theirs
C18_LLMFailureIsSoft ==
    /\ ext_pc # "raised"
    /\ (LLMFailed /\ ext_pc # "start" =>
           /\ llm_items = LLMNone
           /\ ext_pc \in {"robust", "simple", "done"}
           /\ (ext_pc = "done" =>
                  /\ line_idx > Len(ocr_text)
                  /\ result = IF robust_items # <<>> THEN robust_items
                              ELSE simple_items))

C18_Witness ==
    /\ ext_pc = "done"
    /\ llm_called
    /\ llm_response.kind = "non_object_entries"
    /\ llm_items = LLMNone
    /\ result = simple_items
    /\ result # <<>>

-----------------------------------------------------------------------------
(* Specification of order_points *)

Coords == 0..MaxCoord

Points == Coords \X Coords

\* np.argmin and np.argmax: the first index that holds the extreme value
ArgMin(f) ==
    CHOOSE i \in DOMAIN f :
        /\ \A j \in DOMAIN f : f[i] <= f[j]
        /\ \A j \in DOMAIN f : j < i => f[j] > f[i]

ArgMax(f) ==
    CHOOSE i \in DOMAIN f :
        /\ \A j \in DOMAIN f : f[i] >= f[j]
        /\ \A j \in DOMAIN f : j < i => f[j] < f[i]

\* one row of np.diff(pts, axis=1): y - x
Diff_xy(p) == p[1] - p[2]

Diff(p) == p[2] - p[1]

\* rect[0], rect[1], rect[2], rect[3]
order_points(p) ==
    <<p[ArgMin([i \in DOMAIN p |-> p[i][1] + p[i][2]])],
      p[ArgMin([i \in DOMAIN p |-> Diff(p[i])])],
      p[ArgMax([i \in DOMAIN p |-> p[i][1] + p[i][2]])],
      p[ArgMax([i \in DOMAIN p |-> Diff(p[i])])]>>

\* the four vertices approxPolyDP gives are distinct points
InitOrder ==
    /\ pts \in [1..4 -> Points]
    /\ \A i, j \in 1..4 : i # j => pts[i] # pts[j]
    /\ rect = <<>>
    /\ order_pc = "call"
    /\ PriceIdle
    /\ ExtIdle
    /\ HandlesIdle
    /\ AgentIdle
    /\ ServiceIdle
    /\ PreprocessIdle
    /\ StagesIdle
    /\ DeskewIdle
    /\ UploadsIdle
    /\ BatchIdle
    /\ EdgeIdle

OrderPoints ==
    /\ order_pc = "call"
    /\ rect' = order_points(pts)
    /\ order_pc' = "returned"
    /\ UNCHANGED <<pts, outside_order>>

NextOrder == OrderPoints

SpecOrder == InitOrder /\ [][NextOrder]_vars

\* the least and the greatest of x + y, x - y and y - x over the four points
SumsOf == {pts[i][1] + pts[i][2] : i \in 1..4}
XMinusY == {pts[i][1] - pts[i][2] : i \in 1..4}
YMinusX == {pts[i][2] - pts[i][1] : i \in 1..4}

\* the first of the points, in the order given, whose value is v
FirstWith(value(_), v) ==
    pts[CHOOSE i \in 1..4 : value(pts[i]) = v /\ \A j \in 1..(i - 1) : value(pts[j]) # v]

SumOfPoint(p) == p[1] + p[2]
XMinusYOf(p) == p[1] - p[2]
YMinusXOf(p) == p[2] - p[1]

\* C19 as stated: top-left has the minimum x + y, bottom-right the maximum
\* x + y, top-right the minimum x - y and bottom-left the maximum x - y
C19_CornersAsStated ==
    order_pc = "returned" =>
        /\ SumOfPoint(rect[1]) = Min(SumsOf)
        /\ SumOfPoint(rect[3]) = Max(SumsOf)
        /\ XMinusYOf(rect[2]) = Min(XMinusY)
        /\ XMinusYOf(rect[4]) = Max(XMinusY)

\* C19 as amended: top-left is the first point with the minimum x + y,
\* bottom-right the first with the maximum x + y, top-right the first with the
\* minimum y - x and bottom-left the first with the maximum y - x
C19_CornersByYMinusX ==
    order_pc = "returned" =>
        /\ rect[1] = FirstWith(SumOfPoint, Min(SumsOf))
        /\ rect[3] = FirstWith(SumOfPoint, Max(SumsOf))
        /\ rect[2] = FirstWith(YMinusXOf, Min(YMinusX))
        /\ rect[4] = FirstWith(YMinusXOf, Max(YMinusX))

\* a rectangle given from its bottom-left corner
C19_Witness ==
    /\ order_pc = "returned"
    /\ pts = <<<<0, 2>>, <<2, 2>>, <<2, 0>>, <<0, 0>>>>
    /\ rect = <<<<0, 0>>, <<2, 0>>, <<2, 2>>, <<0, 2>>>>

-----------------------------------------------------------------------------
(* Specification of deskew_image *)

\* HoughLines keeps a line that collects this many votes
threshold == 100

\* an image in which a line is found has sides of that order
Sides == {threshold * k : k \in 1..MaxSide}

\* HoughLines steps theta by one degree from 0 to 179: np.degrees(theta) - 90
HoughAngles == (0 - 90)..89

\* at most two lines are detected; no line at all is None
HoughLines == {<<>>} \cup [1..1 -> HoughAngles] \cup [1..2 -> HoughAngles]

\* "if -45 < angle < 45: angles.append(angle)"
KeptAngles(ls) == SelectSeq(ls, LAMBDA angle : 0 - 45 < angle /\ angle < 45)

\* the k-th smallest of the values of a
KthSmallest(a, k) ==
    CHOOSE v \in Range(a) :
        /\ Cardinality({i \in DOMAIN a : a[i] < v}) < k
        /\ k <= Cardinality({i \in DOMAIN a : a[i] <= v})

\* np.median(angles) in half degrees
Median(a) ==
    IF Len(a) % 2 = 1 THEN 2 * KthSmallest(a, (Len(a) + 1) \div 2)
    ELSE KthSmallest(a, Len(a) \div 2) + KthSmallest(a, Len(a) \div 2 + 1)

\* "skew is significant": 0.5 degrees, in half degrees
MinSkew == 1

Abs(x) == IF x < 0 THEN 0 - x ELSE x

\* cosine and sine of 0, 0.5, 1, ..., 44.5 degrees in millionths
CosMicro ==
    <<1000000, 999962, 999848, 999657, 999391, 999048, 998630, 998135,
      997564, 996917, 996195, 995396, 994522, 993572, 992546, 991445,
      990268, 989016, 987688, 986286, 984808, 983255, 981627, 979925,
      978148, 976296, 974370, 972370, 970296, 968148, 965926, 963630,
      961262, 958820, 956305, 953717, 951057, 948324, 945519, 942641,
      939693, 936672, 933580, 930418, 927184, 923880, 920505, 917060,
      913545, 909961, 906308, 902585, 898794, 894934, 891007, 887011,
      882948, 878817, 874620, 870356, 866025, 861629, 857167, 852640,
      848048, 843391, 838671, 833886, 829038, 824126, 819152, 814116,
      809017, 803857, 798636, 793353, 788011, 782608, 777146, 771625,
      766044, 760406, 754710, 748956, 743145, 737277, 731354, 725374,
      719340, 713250>>

SinMicro ==
    <<0, 8727, 17452, 26177, 34899, 43619, 52336, 61049,
      69756, 78459, 87156, 95846, 104528, 113203, 121869, 130526,
      139173, 147809, 156434, 165048, 173648, 182236, 190809, 199368,
      207912, 216440, 224951, 233445, 241922, 250380, 258819, 267238,
      275637, 284015, 292372, 300706, 309017, 317305, 325568, 333807,
      342020, 350207, 358368, 366501, 374607, 382683, 390731, 398749,
      406737, 414693, 422618, 430511, 438371, 446198, 453990, 461749,
      469472, 477159, 484810, 492424, 500000, 507538, 515038, 522499,
      529919, 537300, 544639, 551937, 559193, 566406, 573576, 580703,
      587785, 594823, 601815, 608761, 615661, 622515, 629320, 636078,
      642788, 649448, 656059, 662620, 669131, 675590, 681998, 688355,
      694658, 700909>>

\* np.abs(rotation_matrix[0, 0]) and np.abs(rotation_matrix[0, 1])
cos(m) == CosMicro[Abs(m) + 1]

sin_zero(m) == 0

sin(m) == SinMicro[Abs(m) + 1]

\* int((h * sin) + (w * cos)) and int((h * cos) + (w * sin))
new_w(w, h, m) == (h * sin(m) + w * cos(m)) \div 1000000

new_h(w, h, m) == (h * cos(m) + w * sin(m)) \div 1000000

InitDeskew ==
    /\ image_size \in Sides \X Sides
    /\ lines \in HoughLines
    /\ median_angle = <<>>
    /\ rotated = <<>>
    /\ deskew_pc = "call"
    /\ PriceIdle
    /\ ExtIdle
    /\ HandlesIdle
    /\ AgentIdle
    /\ ServiceIdle
    /\ PreprocessIdle
    /\ StagesIdle
    /\ UploadsIdle
    /\ BatchIdle
    /\ EdgeIdle
    /\ OrderIdle

\* "if lines is None: return image", "if not angles: return image" and
\* "if abs(median_angle) < 0.5: return image"
DeskewReturnImage ==
    /\ deskew_pc = "call"
    /\ \/ /\ KeptAngles(lines) = <<>>
          /\ median_angle' = median_angle
       \/ /\ KeptAngles(lines) # <<>>
          /\ Abs(Median(KeptAngles(lines))) < MinSkew
          /\ median_angle' = <<Median(KeptAngles(lines))>>
    /\ rotated' = image_size
    /\ deskew_pc' = "returned"
    /\ UNCHANGED <<image_size, lines, outside_deskew>>

\* the rotation onto the new canvas
DeskewRotate ==
    /\ deskew_pc = "call"
    /\ KeptAngles(lines) # <<>>
    /\ Abs(Median(KeptAngles(lines))) >= MinSkew
    /\ median_angle' = <<Median(KeptAngles(lines))>>
    /\ rotated' = <<new_w(image_size[1], image_size[2], median_angle'[1]),
                    new_h(image_size[1], image_size[2], median_angle'[1])>>
    /\ deskew_pc' = "rotated"
    /\ UNCHANGED <<image_size, lines, outside_deskew>>

NextDeskew ==
    \/ DeskewReturnImage
    \/ DeskewRotate

SpecDeskew == InitDeskew /\ [][NextDeskew]_vars

\* C20 as stated: when deskew rotates, the canvas is at least as large as the
\* input in both dimensions
C20_CanvasNotSmaller ==
    deskew_pc = "rotated" =>
        /\ rotated[1] >= image_size[1]
        /\ rotated[2] >= image_size[2]

\* C20 as amended: when deskew rotates, the canvas is the bounding box of the
\* rotated input in whole pixels; it is at least as high as the input when the
\* input is at least as wide as high, and at least as wide when the input is
\* at least as high as wide
C20_CanvasIsBoundingBox ==
    deskew_pc = "rotated" =>
        LET w == image_size[1]
            h == image_size[2]
            c == CosMicro[Abs(median_angle[1]) + 1]
            s == SinMicro[Abs(median_angle[1]) + 1]
        IN  /\ rotated[1] * 1000000 <= h * s + w * c
            /\ h * s + w * c < (rotated[1] + 1) * 1000000
            /\ rotated[2] * 1000000 <= h * c + w * s
            /\ h * c + w * s < (rotated[2] + 1) * 1000000
            /\ w >= h => rotated[2] >= h
            /\ h >= w => rotated[1] >= w

\* a tall receipt skewed by 40 degrees gets a canvas less high than itself
C20_Witness ==
    /\ deskew_pc = "rotated"
    /\ image_size = <<100, 300>>
    /\ lines = <<40>>
    /\ median_angle = <<80>>
    /\ rotated = <<269, 294>>

-----------------------------------------------------------------------------
(* The buffer of extract_items_robust *)

StrippedLine(j) == Strip(ocr_text[j])

\* line j has a price: the price pattern matches at its end and
\* clean_ocr_price gives a value
IsPricedLine(j) == Len(StrippedLine(j)) >= 2 /\ LinePrice(StrippedLine(j)) # NoPrice

\* the last priced line before line i, 0 if there is none
LastPricedBefore(i) == Max({0} \cup {j \in 1..(i - 1) : IsPricedLine(j)})

\* the unpriced non-junk lines of at least 2 characters among lines j..i-1
RECURSIVE FragmentsFrom(_, _)
FragmentsFrom(j, i) ==
    IF j >= i THEN <<>>
    ELSE (IF /\ Len(StrippedLine(j)) >= 2
             /\ ~IsPricedLine(j)
             /\ ~IsJunkLine(StrippedLine(j))
          THEN <<StrippedLine(j)>>
          ELSE <<>>) \o FragmentsFrom(j + 1, i)

\* the name fragment of line i: the line without its price match
NameFragment(i) ==
    Strip(Before(StrippedLine(i), PriceEndStart(StrippedLine(i))))

EndsWithPricePattern(j) ==
    Len(StrippedLine(j)) >= 2 /\ PriceEndStart(StrippedLine(j)) > 0

\* C23: in strategy 1, after a line that ends with the price pattern has been
\* processed the buffer is empty, and every such line has a non-null
\* normalized price
C23_PricedLineClearsBuffer ==
    (ext_pc = "robust" /\ line_idx > 1 /\ EndsWithPricePattern(line_idx - 1)) =>
        /\ IsPricedLine(line_idx - 1)
        /\ current_item_lines = <<>>

\* how many of the lines 1..n end with the price pattern
PricePatternLines(n) == Cardinality({j \in 1..n : EndsWithPricePattern(j)})

\* C24: strategy 1 never has more items than lines that end with the price
\* pattern, while it runs and in what it returns: what is left in the buffer
\* at the end of input is not an item
C24_NoItemWithoutPrice ==
    /\ ext_pc = "robust" => Len(robust_items) <= PricePatternLines(line_idx - 1)
    /\ (ext_pc = "done" /\ ~LLMSucceeded /\ simple_items = <<>>) =>
           /\ Len(result) <= PricePatternLines(Len(ocr_text))
           /\ \A k \in DOMAIN result : result[k].price # NoPrice

\* "3 x Bread Rolls 1.20" then "Tomato Soup": one item, the description is dropped
C24_Witness ==
    /\ ext_pc = "done"
    /\ ~llm_called
    /\ current_item_lines = <<Str_TomatoSoup>>
    /\ Len(result) = 1
    /\ PricePatternLines(Len(ocr_text)) = 1

-----------------------------------------------------------------------------
(* Specification of the geometry stages and auto-crop: one call of each of
   deskew_image, correct_perspective and auto_crop_receipt *)

\* the areas and the polygon lengths of the contours found
ContourShapes == [area : 1..2, vertices : 3..5]

Contours == {<<>>} \cup [1..1 -> ContourShapes] \cup [1..2 -> ContourShapes]

\* angles at the limits of the filter and of the significant skew
LimitAngles == {0 - 46, 0 - 45, 0 - 44, 0 - 1, 0, 1, 44, 45, 46}

StageLines == {<<>>} \cup [1..1 -> HoughAngles] \cup [1..2 -> LimitAngles]

\* max(contours, key=cv2.contourArea): the first contour of the largest area
largest_contour_first(cs) == cs[1]

largest_contour(cs) == cs[ArgMax([i \in DOMAIN cs |-> cs[i].area])]

InitStages ==
    /\ image_size = <<threshold, threshold>>
    /\ lines \in StageLines
    /\ median_angle = <<>>
    /\ rotated = <<>>
    /\ deskew_pc = "call"
    /\ contours \in Contours
    /\ persp_result = "None"
    /\ persp_pc = "call"
    /\ coords \in {<<>>, <<"rect">>}
    /\ crop_result = "None"
    /\ crop_pc = "call"
    /\ PriceIdle
    /\ ExtIdle
    /\ HandlesIdle
    /\ AgentIdle
    /\ ServiceIdle
    /\ PreprocessIdle
    /\ UploadsIdle
    /\ BatchIdle
    /\ EdgeIdle
    /\ OrderIdle

\* "if not contours: return image" and the final "return image"
PerspectiveReturnImage ==
    /\ persp_pc = "call"
    /\ \/ contours = <<>>
       \/ /\ contours # <<>>
          /\ largest_contour(contours).vertices # 4
    /\ persp_result' = "image"
    /\ persp_pc' = "returned"
    /\ UNCHANGED <<contours, coords, crop_result, crop_pc, outside_stage>>

\* "if len(approx) == 4: ... return warped"
PerspectiveWarp ==
    /\ persp_pc = "call"
    /\ contours # <<>>
    /\ largest_contour(contours).vertices = 4
    /\ persp_result' = "warped"
    /\ persp_pc' = "returned"
    /\ UNCHANGED <<contours, coords, crop_result, crop_pc, outside_stage>>

\* "if coords is None: return image"
CropReturnImage ==
    /\ crop_pc = "call"
    /\ coords = <<>>
    /\ crop_result' = "image"
    /\ crop_pc' = "returned"
    /\ UNCHANGED <<contours, persp_result, persp_pc, coords, outside_stage>>

\* "return cropped"
CropToContent ==
    /\ crop_pc = "call"
    /\ coords # <<>>
    /\ crop_result' = "cropped"
    /\ crop_pc' = "returned"
    /\ UNCHANGED <<contours, persp_result, persp_pc, coords, outside_stage>>

NextStages ==
    \/ DeskewReturnImage
    \/ DeskewRotate
    \/ PerspectiveReturnImage
    \/ PerspectiveWarp
    \/ CropReturnImage
    \/ CropToContent

SpecStages == InitStages /\ [][NextStages]_vars

\* no detected angle lies in (-45, 45)
NoAngleInRange == \A i \in DOMAIN lines : lines[i] <= 0 - 45 \/ lines[i] >= 45

\* the contours of the largest area: max takes the first of them
IsLargest(i) ==
    /\ \A j \in DOMAIN contours : contours[j].area <= contours[i].area
    /\ \A j \in 1..(i - 1) : contours[j].area < contours[i].area

\* C21: a stage whose detection finds nothing returns its input and raises no
\* error: deskew_image when no line is detected, when no angle lies in
\* (-45, 45) or when the median is below 0.5 degrees; correct_perspective when
\* there is no contour or the largest contour is not a quadrilateral;
\* auto_crop_receipt when there is no foreground pixel
C21_NothingFoundIsPassthrough ==
    /\ (deskew_pc # "call" /\ (lines = <<>> \/ NoAngleInRange)) =>
           deskew_pc = "returned" /\ rotated = image_size /\ median_angle = <<>>
    /\ (deskew_pc # "call" /\ median_angle # <<>> /\ median_angle[1] = 0) =>
           deskew_pc = "returned" /\ rotated = image_size
    /\ (persp_pc # "call" /\ contours = <<>>) =>
           persp_pc = "returned" /\ persp_result = "image"
    /\ \A i \in DOMAIN contours :
           (persp_pc # "call" /\ IsLargest(i) /\ contours[i].vertices # 4) =>
               persp_pc = "returned" /\ persp_result = "image"
    /\ (crop_pc # "call" /\ coords = <<>>) =>
           crop_pc = "returned" /\ crop_result = "image"

\* all three stages found nothing: the lines are vertical, the largest contour
\* is a triangle though a smaller one is a quadrilateral, no pixel is foreground
C21_Witness ==
    /\ deskew_pc = "returned" /\ lines = <<45, 46>> /\ rotated = image_size
    /\ persp_pc = "returned" /\ persp_result = "image"
    /\ contours = <<[area |-> 1, vertices |-> 4], [area |-> 2, vertices |-> 3]>>
    /\ crop_pc = "returned" /\ crop_result = "image" /\ coords = <<>>

\* the median of -1 and 1 degrees is below the significant skew
C21_WitnessSmallMedian ==
    /\ deskew_pc = "returned" /\ lines = <<0 - 1, 1>> /\ median_angle = <<0>>
    /\ rotated = image_size

-----------------------------------------------------------------------------
(* Specification of preprocess_production *)

\* the stages in the order of the statements of the function
PipelineOrder_components ==
    <<"perspective", "deskew", "resize", "illumination", "denoise", "contrast",
      "sharpen", "grayscale", "auto_crop", "threshold", "morphology">>

PipelineOrder ==
    <<"resize", "perspective", "deskew", "illumination", "auto_crop", "grayscale",
      "denoise", "contrast", "sharpen", "threshold", "morphology">>

\* the condition under which the statement of a stage runs
StageRuns(stage) ==
    CASE stage = "resize" -> too_large
      [] stage = "perspective" -> enable_perspective
      [] stage = "deskew" -> enable_deskewing
      [] stage = "sharpen" -> enable_sharpening
      [] OTHER -> TRUE

InitPreprocess ==
    /\ too_large \in BOOLEAN
    /\ enable_perspective \in BOOLEAN
    /\ enable_deskewing \in BOOLEAN
    /\ enable_sharpening \in BOOLEAN
    /\ pre_pc = 1
    /\ stages_run = <<>>
    /\ PriceIdle
    /\ ExtIdle
    /\ HandlesIdle
    /\ AgentIdle
    /\ ServiceIdle
    /\ UploadsIdle
    /\ BatchIdle
    /\ EdgeIdle
    /\ OrderIdle
    /\ DeskewIdle
    /\ StagesIdle

pre_args == <<too_large, enable_perspective, enable_deskewing, enable_sharpening>>

\* the next statement applies its stage
PreprocessStage ==
    /\ pre_pc \in DOMAIN PipelineOrder
    /\ StageRuns(PipelineOrder[pre_pc])
    /\ stages_run' = Append(stages_run, PipelineOrder[pre_pc])
    /\ pre_pc' = pre_pc + 1
    /\ UNCHANGED <<pre_args, outside_pre>>

\* the condition of the next statement is false
PreprocessSkip ==
    /\ pre_pc \in DOMAIN PipelineOrder
    /\ ~StageRuns(PipelineOrder[pre_pc])
    /\ pre_pc' = pre_pc + 1
    /\ UNCHANGED <<pre_args, stages_run, outside_pre>>

\* "return cleaned"
PreprocessReturn ==
    /\ pre_pc = Len(PipelineOrder) + 1
    /\ pre_pc' = 0
    /\ UNCHANGED <<pre_args, stages_run, outside_pre>>

NextPreprocess ==
    \/ PreprocessStage
    \/ PreprocessSkip
    \/ PreprocessReturn

SpecPreprocess == InitPreprocess /\ [][NextPreprocess]_vars

\* the component of a stage: 1 GeometryCorrector, 2 PhotometricNormalizer,
\* 3 Binarizer; the grayscale conversion belongs to none
ComponentOf(stage) ==
    CASE stage \in {"perspective", "deskew"} -> 1
      [] stage \in {"resize", "illumination", "denoise", "contrast", "sharpen"} -> 2
      [] stage \in {"auto_crop", "threshold", "morphology"} -> 3
      [] OTHER -> 0

OnlyWhenEnabled ==
    \A i \in DOMAIN stages_run :
        /\ stages_run[i] = "perspective" => enable_perspective
        /\ stages_run[i] = "deskew" => enable_deskewing
        /\ stages_run[i] = "sharpen" => enable_sharpening

\* C25 as stated: every GeometryCorrector step runs before every
\* PhotometricNormalizer step and every PhotometricNormalizer step before
\* every Binarizer step; perspective, deskew and sharpen run only when enabled
C25_ComponentOrder ==
    /\ OnlyWhenEnabled
    /\ \A i, j \in DOMAIN stages_run :
           (i < j /\ ComponentOf(stages_run[i]) > 0 /\ ComponentOf(stages_run[j]) > 0) =>
               ComponentOf(stages_run[i]) <= ComponentOf(stages_run[j])

\* the position of a stage in the order of the function
PositionOf(stage) ==
    CASE stage = "resize" -> 1
      [] stage = "perspective" -> 2
      [] stage = "deskew" -> 3
      [] stage = "illumination" -> 4
      [] stage = "auto_crop" -> 5
      [] stage = "grayscale" -> 6
      [] stage = "denoise" -> 7
      [] stage = "contrast" -> 8
      [] stage = "sharpen" -> 9
      [] stage = "threshold" -> 10
      [] stage = "morphology" -> 11

\* C25 as amended: the stages run in the fixed order resize (when the image is
\* too large), perspective, deskew, illumination correction, auto-crop,
\* grayscale, denoise, contrast enhancement, sharpen, adaptive threshold,
\* morphological cleanup; perspective, deskew and sharpen run only when
\* enabled, and every other stage has run when the function returns
C25_StatementOrder ==
    /\ OnlyWhenEnabled
    /\ \A i, j \in DOMAIN stages_run :
           i < j => PositionOf(stages_run[i]) < PositionOf(stages_run[j])
    /\ \A i \in DOMAIN stages_run : stages_run[i] = "resize" => too_large
    /\ pre_pc = 0 =>
           /\ {"illumination", "auto_crop", "grayscale", "denoise", "contrast",
               "threshold", "morphology"} \subseteq Range(stages_run)
           /\ too_large => "resize" \in Range(stages_run)
           /\ enable_perspective => "perspective" \in Range(stages_run)
           /\ enable_deskewing => "deskew" \in Range(stages_run)
           /\ enable_sharpening => "sharpen" \in Range(stages_run)

\* a large image with every option on: all eleven stages ran
C25_Witness ==
    /\ pre_pc = 0
    /\ too_large /\ enable_perspective /\ enable_deskewing /\ enable_sharpening
    /\ Len(stages_run) = 11
    /\ stages_run[1] = "resize"
    /\ stages_run[5] = "auto_crop"

-----------------------------------------------------------------------------
(* Specification of POST /ocr of akedo_demo/ocr_service.py and of
   POST /ocr/receipt of edge-OCR/ocr_service.py: process_receipt, one request
   after the other *)

ServiceNames == {"akedo_demo", "edge-OCR"}

InitService ==
    /\ service \in ServiceNames
    /\ svc_pc = "idle"
    /\ svc_outcome = "None"
    /\ temp_path = <<>>
    /\ tmp_dir = {}
    /\ svc_total_requests = 0
    /\ svc_error_count = 0
    /\ svc_done = 0
    /\ PriceIdle
    /\ ExtIdle
    /\ HandlesIdle
    /\ AgentIdle
    /\ UploadsIdle
    /\ BatchIdle
    /\ EdgeIdle
    /\ OrderIdle
    /\ DeskewIdle
    /\ StagesIdle
    /\ PreprocessIdle

\* "temp_path = None", the count of the request in the edge-OCR service, and the
\* with block: NamedTemporaryFile(delete=False) creates the file, then the
\* upload is read; an upload above MAX_FILE_SIZE_MB raises the 413 before
\* temp_path is assigned
ServiceSave ==
    /\ svc_pc = "idle"
    /\ svc_done < MaxCalls
    /\ svc_total_requests' = StatsAfter(svc_total_requests, service = "edge-OCR")
    /\ tmp_dir' = tmp_dir \cup {svc_done + 1}
    /\ \E too_big \in BOOLEAN :
          IF too_big
          THEN temp_path' = <<>> /\ svc_outcome' = "413" /\ svc_pc' = "finally"
          ELSE temp_path' = <<svc_done + 1>> /\ svc_outcome' = "saved" /\ svc_pc' = "process"
    /\ UNCHANGED <<service, svc_error_count, svc_done, outside_svc>>

\* process_receipt_edge returns a result with or without 'error', or raises;
\* the statistics are updated
ServiceProcess ==
    /\ svc_pc = "process"
    /\ \E outcome \in {"success", "error_result", "exception"} :
          /\ svc_outcome' = outcome
          /\ svc_error_count' = StatsAfter(svc_error_count, outcome # "success")
          /\ svc_total_requests' =
                 StatsAfter(svc_total_requests,
                            service = "akedo_demo" /\ outcome = "success")
    /\ svc_pc' = "finally"
    /\ UNCHANGED <<service, temp_path, tmp_dir, svc_done, outside_svc>>

\* "finally: if temp_path and os.path.exists(temp_path): os.unlink(temp_path)"
ServiceFinally ==
    /\ svc_pc = "finally"
    /\ tmp_dir' = tmp_dir \ Range(temp_path)
    /\ svc_done' = svc_done + 1
    /\ svc_pc' = "idle"
    /\ UNCHANGED <<service, svc_outcome, temp_path, svc_total_requests,
                   svc_error_count, outside_svc>>

NextService ==
    \/ ServiceSave
    \/ ServiceProcess
    \/ ServiceFinally

SpecService == InitService /\ [][NextService]_vars

\* C26: when a request has completed, whatever its outcome, the temporary
\* file created for its upload no longer exists
C26_TempFileRemoved ==
    svc_pc = "idle" => tmp_dir = {}

\* the error_rate of /stats, in whole percent
ErrorRate == (svc_error_count * 100) \div Max({svc_total_requests, 1})

\* C27: error_count <= total_requests after any sequence of requests, so the
\* error_rate is at most 100 percent
C27_ErrorsWithinRequests ==
    /\ svc_error_count <= svc_total_requests
    /\ ErrorRate <= 100

-----------------------------------------------------------------------------
(* Specification of the shopping-agent graph: entry point "agent", the
   conditional edge should_continue after "agent", the edge from "tools" to
   "agent" *)

END == "END"

\* what the model can answer
Contents == {"SEARCH:", "BUY: id 2", "BUY: id", "BUY: id two", "DONE:", "other"}

Products == {"id"}

\* the conditional edge after the agent node
should_continue(st) == IF st = "finished" THEN END ELSE "tools"

InitAgent ==
    /\ agent_next = "agent"
    /\ status \in {"active", "finished"}
    /\ content = "None"
    /\ cart = <<>>
    /\ agent_steps = 0
    /\ PriceIdle
    /\ ExtIdle
    /\ HandlesIdle
    /\ UploadsIdle
    /\ BatchIdle
    /\ EdgeIdle
    /\ OrderIdle
    /\ DeskewIdle
    /\ StagesIdle
    /\ PreprocessIdle
    /\ ServiceIdle

\* the agent node: the model answers, the node returns status "active", and
\* the conditional edge picks the next node from the updated state
shopping_node ==
    /\ agent_next = "agent"
    /\ agent_steps < MaxSteps
    /\ content' \in Contents
    /\ status' = "active"
    /\ agent_next' = should_continue(status')
    /\ agent_steps' = agent_steps + 1
    /\ UNCHANGED <<cart, outside_agent>>

\* the tools node: the command of the last message is carried out, then the
\* edge leads back to the agent node; int(parts[1]) raises on "BUY: id two"
tool_execution_node ==
    /\ agent_next = "tools"
    /\ agent_steps < MaxSteps
    /\ IF content = "BUY: id two"
       THEN agent_next' = "raised" /\ status' = status /\ cart' = cart
       ELSE /\ agent_next' = "agent"
            /\ status' = IF content = "DONE:" THEN "finished" ELSE "active"
            /\ cart' = IF content = "BUY: id 2" THEN Append(cart, "id") ELSE cart
    /\ agent_steps' = agent_steps + 1
    /\ UNCHANGED <<content, outside_agent>>

NextAgent ==
    \/ shopping_node
    \/ tool_execution_node

SpecAgent == InitAgent /\ [][NextAgent]_vars

\* C28: once the tool node has set status to 'finished' on a 'DONE:' output,
\* the agent node is not run again and the next node is END
C28_FinishedStops ==
    [][(status = "finished" /\ content = "DONE:") =>
           (agent_next' = END /\ content' = content)]_vars

-----------------------------------------------------------------------------
(* order_points as a permutation *)

\* C29: order_points returns a permutation of its four distinct input points:
\* each input point is assigned to exactly one corner
C29_OrderIsPermutation ==
    order_pc = "returned" =>
        /\ Range(rect) = Range(pts)
        /\ \A i, j \in DOMAIN rect : i # j => rect[i] # rect[j]

-----------------------------------------------------------------------------
(* The cached Florence model and the size a request asks for *)

\* C30: the model that runs the inference of a Florence request is the one of
\* the requested size, so the label 'florence-2-<size>' names the model that
\* produced the result
C30_ModelOfRequestedSize ==
    \A r \in Requests :
        (req_engine[r] = "florence_ocr" /\ ran_with[r] # None) =>
            ran_with[r] = req_size[r]

=============================================================================
